---- MODULE Spec2Model ----
(***************************************************************************)
(* Request-admission layer of the AetherLens API: the sliding-window rate  *)
(* limiter (api/rate_limit.py) and the middleware pipeline built by        *)
(* create_app (api/main.py) around the route handlers.                     *)
(*                                                                         *)
(* Time is counted in whole clock ticks.  The window lengths and the       *)
(* quotas of the deployed pipeline (60 s / 60 requests, 3600 s / 1000      *)
(* requests) are scaled down to small values that keep their order         *)
(* (minute window < hour window, minute quota < hour quota).               *)
(***************************************************************************)
EXTENDS Integers, Sequences, FiniteSets, TLC

\* ------------------------------------------------------------------ bounds
MaxTime == 2
MaxCalls == 5
MaxLimit == 2
MaxWindow == 2
MaxReqs == 3
MaxInFlight == 2
MaxTokens == 1
MaxDeviceReqs == 3
MaxPools == 2
MaxPage == 4
MaxListReqs == 1

\* the limits of the list route, scaled down: le=100 of page_size, and the
\* largest value of the bigint parameters of LIMIT and OFFSET
PageSizeLimit == 3
BigintMax == 6
MaxDbTasks == 2
\* scaled stand-ins for jwt_access_token_expire_minutes = 60 and
\* jwt_refresh_token_expire_days = 7
AccessTokenExpire == 2
RefreshTokenExpire == 3
\* scaled stand-ins for RateLimitMiddleware(requests_per_minute=60,
\* requests_per_hour=1000) and the window lengths 60 and 3600
RequestsPerMinute == 1
RequestsPerHour == 2
MinuteWindow == 1
HourWindow == 2

Clients == {"10.0.0.1", "10.0.0.2"}
\* the clients that send requests through the pipeline
PipelineClients == {"10.0.0.1"}

\* f"{client_ip}:minute" and f"{client_ip}:hour"
MinuteKey(client_ip) == <<client_ip, "minute">>
HourKey(client_ip) == <<client_ip, "hour">>
Keys == {MinuteKey(c) : c \in Clients} \cup {HourKey(c) : c \in Clients}

VARIABLES
    now,        \* time.time()
    requests,   \* InMemoryRateLimiter.requests: key -> list of timestamps
    calls,      \* history: per key, the is_allowed calls made so far
    limMax,     \* max_requests handed to is_allowed by a direct caller
    limWin,     \* window_seconds handed to is_allowed by a direct caller
    reqs,       \* per concurrent task slot, the request it is serving
    arrived,    \* number of requests that entered the pipeline
    REQUEST_IN_PROGRESS,
    REQUEST_DURATION,
    REQUEST_COUNT,
    issued,     \* the tokens returned by create_access_token / create_refresh_token
    lastDecode, \* the last decode_token call: token, clock and outcome
    auth,       \* a request to a route that declares an authentication requirement
    users,      \* the users table: user_id -> role, or "absent"
    devices,    \* the devices table: device_id -> row, or "no row"
    gone,       \* history: the devices deleted and not created again
    dev,        \* a request to a route of the devices router
    login,      \* a request to POST /api/v1/auth/login
    pool,       \* db_manager.pool: None, or the pool it holds
    pools,      \* the pools create_pool has returned, each open or closed
    dbcall,     \* the connect and disconnect calls in progress
    dbLast,     \* the last call of db_manager that returned or raised
    lst         \* a request to GET /api/v1/devices

vars == <<now, requests, calls, limMax, limWin, reqs, arrived,
          REQUEST_IN_PROGRESS, REQUEST_DURATION, REQUEST_COUNT,
          issued, lastDecode, auth, users, devices, gone, dev, login,
          pool, pools, dbcall, dbLast, lst>>

metricVars == <<REQUEST_IN_PROGRESS, REQUEST_DURATION, REQUEST_COUNT>>

authVars == <<issued, lastDecode, auth, users>>

deviceVars == <<devices, gone, dev, login>>

dbVars == <<pool, pools, dbcall, dbLast>>

\* ---------------------------------------------------------- rate limiter
\* defaultdict(list): a key that was never touched reads as the empty list
Entry(reqmap, key) == IF key \in DOMAIN reqmap THEN reqmap[key] ELSE <<>>

PutAll(reqmap, key, val) ==
    [k \in (DOMAIN reqmap) \cup {key} |-> val]

Put(reqmap, key, val) ==
    [k \in (DOMAIN reqmap) \cup {key} |-> IF k = key THEN val ELSE reqmap[k]]

PruneKeepsBoundary(entry, window_start) ==
    SelectSeq(entry, LAMBDA timestamp : timestamp >= window_start)

\* [timestamp for timestamp in self.requests[key] if timestamp > window_start]
Prune(entry, window_start) == SelectSeq(entry, LAMBDA timestamp : timestamp > window_start)

IsAllowedOffByOne(reqmap, key, max_requests, window_seconds, t) ==
    LET window_start == t - window_seconds
        pruned == Prune(Entry(reqmap, key), window_start)
        current_count == Len(pruned)
    IN  IF current_count <= max_requests
        THEN [requests |-> Put(reqmap, key, Append(pruned, t)),
              allowed |-> TRUE,
              remaining |-> max_requests - current_count - 1]
        ELSE [requests |-> Put(reqmap, key, pruned),
              allowed |-> FALSE,
              remaining |-> 0]

IsAllowedNoPrune(reqmap, key, max_requests, window_seconds, t) ==
    LET pruned == Entry(reqmap, key)
        current_count == Len(pruned)
    IN  IF current_count < max_requests
        THEN [requests |-> Put(reqmap, key, Append(pruned, t)),
              allowed |-> TRUE,
              remaining |-> max_requests - current_count - 1]
        ELSE [requests |-> Put(reqmap, key, pruned),
              allowed |-> FALSE,
              remaining |-> 0]

IsAllowedRecordsRejected(reqmap, key, max_requests, window_seconds, t) ==
    LET window_start == t - window_seconds
        pruned == Prune(Entry(reqmap, key), window_start)
        current_count == Len(pruned)
    IN  IF current_count < max_requests
        THEN [requests |-> Put(reqmap, key, Append(pruned, t)),
              allowed |-> TRUE,
              remaining |-> max_requests - current_count - 1]
        ELSE [requests |-> Put(reqmap, key, Append(pruned, t)),
              allowed |-> FALSE,
              remaining |-> 0]

IsAllowedRemainingOffByOne(reqmap, key, max_requests, window_seconds, t) ==
    LET window_start == t - window_seconds
        pruned == Prune(Entry(reqmap, key), window_start)
        current_count == Len(pruned)
    IN  IF current_count < max_requests
        THEN [requests |-> Put(reqmap, key, Append(pruned, t)),
              allowed |-> TRUE,
              remaining |-> max_requests - current_count]
        ELSE [requests |-> Put(reqmap, key, pruned),
              allowed |-> FALSE,
              remaining |-> 0]

\* InMemoryRateLimiter.is_allowed at clock value t: the new map and the
\* returned pair
IsAllowed(reqmap, key, max_requests, window_seconds, t) ==
    LET window_start == t - window_seconds
        pruned == Prune(Entry(reqmap, key), window_start)
        current_count == Len(pruned)
    IN  IF current_count < max_requests
        THEN [requests |-> Put(reqmap, key, Append(pruned, t)),
              allowed |-> TRUE,
              remaining |-> max_requests - current_count - 1]
        ELSE [requests |-> Put(reqmap, key, pruned),
              allowed |-> FALSE,
              remaining |-> 0]

\* what a caller of is_allowed observes: clock, arguments, entry before and
\* after, returned pair
CallRecord(reqmap, key, max_requests, window_seconds, t, res) ==
    [t |-> t, max |-> max_requests, win |-> window_seconds,
     before |-> Entry(reqmap, key), after |-> res.requests[key],
     allowed |-> res.allowed, remaining |-> res.remaining]

Logged(log, reqmap, key, max_requests, window_seconds, t, res) ==
    [log EXCEPT ![key] =
        Append(@, CallRecord(reqmap, key, max_requests, window_seconds, t, res))]

RECURSIVE SumLen(_, _)
SumLen(f, S) ==
    IF S = {} THEN 0
    ELSE LET k == CHOOSE x \in S : TRUE IN Len(f[k]) + SumLen(f, S \ {k})

TotalCalls == SumLen(calls, Keys)

EmptyMap == [k \in {} |-> <<>>]

TickSweeps ==
    /\ now < MaxTime
    /\ now' = now + 1
    /\ requests' = [k \in DOMAIN requests |->
                        SelectSeq(requests[k], LAMBDA timestamp : timestamp > now + 1 - limWin)]
    /\ UNCHANGED <<calls, limMax, limWin, authVars, reqs, arrived, metricVars, deviceVars, dbVars, lst>>

\* the clock never runs backwards between two checks
Tick ==
    /\ now < MaxTime
    /\ now' = now + 1
    /\ UNCHANGED <<requests, calls, limMax, limWin, authVars, reqs, arrived, metricVars, deviceVars, dbVars, lst>>

\* a direct caller of the limiter: one is_allowed(key, max_requests,
\* window_seconds) call
LimiterCheck(key) ==
    /\ TotalCalls < MaxCalls
    /\ LET res == IsAllowed(requests, key, limMax, limWin, now)
       IN  /\ requests' = res.requests
           /\ calls' = Logged(calls, requests, key, limMax, limWin, now, res)
    /\ UNCHANGED <<now, limMax, limWin, authVars, reqs, arrived, metricVars, deviceVars, dbVars, lst>>

\* ----------------------------------------------------------- JWT manager
\* settings.secret_key and a key the service does not hold
SecretKey == "secret_key"

\* the signature of jwt.encode(payload, key, algorithm): a value fixed by
\* the payload and the key
Sign(payload, key) == <<key, payload>>

\* the claim sets handed to the create operations: the login claims of a
\* user and of an admin, a claim set without "sub", one that uses the name
\* "type" itself
ClaimSets ==
    { [sub |-> "u1", username |-> "alice", role |-> "user"],
      [sub |-> "u2", username |-> "root", role |-> "admin"],
      [username |-> "ghost"],
      [sub |-> "u1", type |-> "custom"] }

\* expires_delta: <<>> is None, <<d>> a timedelta of d ticks
ExpiresDeltas == {<<>>, <<-1>>, <<1>>}

\* the names the create operations set themselves
ReservedClaims == {"exp", "iat", "type"}

UpdatedDropsRole(data, expire, iat, kind) ==
    [k \in ((DOMAIN data) \ {"role"}) \cup ReservedClaims |->
        IF k = "exp" THEN expire
        ELSE IF k = "iat" THEN iat
        ELSE IF k = "type" THEN kind
        ELSE data[k]]

\* to_encode = data.copy(); to_encode.update({"exp": ..., "iat": ..., "type": ...})
Updated(data, expire, iat, kind) ==
    [k \in (DOMAIN data) \cup ReservedClaims |->
        IF k = "exp" THEN expire
        ELSE IF k = "iat" THEN iat
        ELSE IF k = "type" THEN kind
        ELSE data[k]]

\* the default of expires_delta for the kind of token
DefaultTtl(kind) == IF kind = "access" THEN AccessTokenExpire ELSE RefreshTokenExpire

TtlOf(kind, expires_delta) ==
    IF expires_delta = <<>> THEN DefaultTtl(kind) ELSE expires_delta[1]

IssueExpiryFromSecondRead(kind, data, expires_delta, t1, t2) ==
    LET ttl == TtlOf(kind, expires_delta)
        payload == Updated(data, t2 + ttl + 1, t2, kind)
    IN  [token |-> [segments |-> 3, payload |-> payload,
                    sig |-> Sign(payload, SecretKey)],
         data |-> data, kind |-> kind, ttl |-> ttl,
         default |-> (expires_delta = <<>>), at |-> t1]

\* create_access_token / create_refresh_token: the expiry is computed from a
\* first clock read t1, "iat" is a second clock read t2; the record keeps,
\* beside the token, the arguments of the call
Issue(kind, data, expires_delta, t1, t2) ==
    LET ttl == TtlOf(kind, expires_delta)
        payload == Updated(data, t1 + ttl, t2, kind)
    IN  [token |-> [segments |-> 3, payload |-> payload,
                    sig |-> Sign(payload, SecretKey)],
         data |-> data, kind |-> kind, ttl |-> ttl,
         default |-> (expires_delta = <<>>), at |-> t1]

\* the string "invalid-token-format": not three segments
Malformed ==
    [segments |-> 1, payload |-> [raw |-> "invalid-token-format"],
     sig |-> <<"", "">>]

\* a token with byte b of its signature segment changed
FlipBytes == {1, 2}
Tamper(token, b) == [token EXCEPT !.sig = <<"flipped", b, token.sig>>]

Response(status, detail, www_authenticate) ==
    [status |-> status, detail |-> detail, www_authenticate |-> www_authenticate]

NoResponse == Response(0, "", "")

\* the HTTPException of the ExpiredSignatureError clause and of the
\* JWTError clause of decode_token
ExpiredResponse == Response(401, "Token has expired", "Bearer")
InvalidResponse == Response(401, "Could not validate credentials", "Bearer")

\* global_exception_handler
InternalErrorResponse == Response(500, "Internal server error", "")

\* "import jwt" is PyJWT: the module has ExpiredSignatureError, and
\* PyJWTError, InvalidTokenError, DecodeError, ..., but no attribute
\* JWTError
JwtModuleHasJWTError == FALSE

Outcome(kind, payload, response) ==
    [kind |-> kind, payload |-> payload, response |-> response]

NoPayload == [none |-> TRUE]

\* what decode_token does with a token that jwt.decode rejects for another
\* reason than expiry: evaluating "except jwt.JWTError" raises
\* AttributeError, which leaves decode_token as an unexpected exception
InvalidOutcome ==
    IF JwtModuleHasJWTError
    THEN Outcome("invalid", NoPayload, InvalidResponse)
    ELSE Outcome("error", NoPayload, InternalErrorResponse)

ExpiredOutcome == Outcome("expired", NoPayload, ExpiredResponse)

SignatureValid(token) ==
    token.segments = 3 /\ token.sig = Sign(token.payload, SecretKey)

DecodeOutcomesNoExpiry(token, t) ==
    IF ~SignatureValid(token) THEN {InvalidOutcome}
    ELSE {Outcome("ok", token.payload, NoResponse)}

\* decode_token(token) at clock value t: jwt.decode checks the structure and
\* the signature, then "exp".  The clock is counted in whole ticks and "exp"
\* is a whole number: at t = exp the library's comparison of "exp" with its
\* own clock read can fall either way
DecodeOutcomes(token, t) ==
    IF ~SignatureValid(token) THEN {InvalidOutcome}
    ELSE IF token.payload.exp < t THEN {ExpiredOutcome}
    ELSE IF token.payload.exp = t
         THEN {ExpiredOutcome, Outcome("ok", token.payload, NoResponse)}
    ELSE {Outcome("ok", token.payload, NoResponse)}

IssuedTokens == {i.token : i \in issued}

\* the tokens a caller can present: issued ones, issued ones with a byte of
\* the signature changed, and a malformed string
Presentable ==
    IssuedTokens
        \cup {Tamper(tk, b) : tk \in IssuedTokens, b \in FlipBytes}
        \cup {Malformed}

\* the record of the issue of a token, <<>> for a token never issued
SourceOf(token) ==
    IF token \in IssuedTokens
    THEN <<CHOOSE i \in issued : i.token = token>>
    ELSE <<>>

NoDecode == [token |-> Malformed, t |-> -1, out |-> Outcome("none", NoPayload, NoResponse),
             src |-> <<>>]

\* create_access_token(data, expires_delta) and
\* create_refresh_token(data, expires_delta); the clock may advance by one
\* tick between the two clock reads of the operation
CreateToken(kind, data, expires_delta, advance) ==
    /\ Cardinality(issued) < MaxTokens
    /\ now + advance <= MaxTime
    /\ issued' = issued \cup {Issue(kind, data, expires_delta, now, now + advance)}
    /\ now' = now + advance
    /\ UNCHANGED <<requests, calls, limMax, limWin, reqs, arrived, metricVars,
                   lastDecode, auth, users, deviceVars, dbVars, lst>>

CreateAccessToken(data, expires_delta, advance) ==
    CreateToken("access", data, expires_delta, advance)

CreateRefreshToken(data, expires_delta, advance) ==
    CreateToken("refresh", data, expires_delta, advance)

\* decode_token(token) called at the current clock value
DecodeToken(token) ==
    /\ \E out \in DecodeOutcomes(token, now) :
          lastDecode' = [token |-> token, t |-> now, out |-> out,
                         src |-> SourceOf(token)]
    /\ UNCHANGED <<now, requests, calls, limMax, limWin, reqs, arrived, metricVars,
                   issued, auth, users, deviceVars, dbVars, lst>>

\* ------------------------------------------------- identity resolution
UserIds == {"u1", "u2"}

\* FetchRow's answer when the users table has no row for the user_id; the
\* answer is the role column of the row otherwise
NoRow == "no row"

\* the users table of a deployment with one user and one admin
DefaultUsers == [u \in UserIds |-> IF u = "u2" THEN "admin" ELSE "user"]

\* the contents of the users table the requests are resolved against: the
\* default one, one where u1 has no row and u2 another role, one where the
\* roles were changed after the tokens' claims were written
UserStores ==
    { DefaultUsers,
      [DefaultUsers EXCEPT !["u1"] = NoRow, !["u2"] = "superadmin"],
      [DefaultUsers EXCEPT !["u1"] = "admin", !["u2"] = "user"] }

\* the routes that depend on get_current_user alone and on require_admin
AuthRoutes == {"current_user", "admin_only"}

\* HTTPBearer() with no Authorization header: the release of FastAPI the
\* deployment installs decides between 403 without a challenge and 401 with
\* one
MissingCredentialsResponses ==
    { Response(403, "Not authenticated", ""),
      Response(401, "Not authenticated", "Bearer") }

MissingSubjectResponse == Response(401, "Invalid authentication credentials", "Bearer")
UserNotFoundResponse == Response(401, "User not found", "Bearer")
ForbiddenResponse == Response(403, "Admin privileges required", "")
HandlerResponse == Response(200, "", "")

ResolveSubjectUnchecked(payload) ==
    IF "sub" \in DOMAIN payload THEN <<payload.sub>> ELSE <<"">>

\* user_id = payload.get("sub"): <<>> is None
ResolveSubject(payload) ==
    IF "sub" \in DOMAIN payload THEN <<payload.sub>> ELSE <<>>

RequireAdminAcceptsAnyRole(role) == role # NoRow

\* current_user.get("role") != "admin" raises; TRUE: the caller passes
RequireAdmin(role) == role = "admin"

\* SELECT ... FROM users WHERE user_id = $1
FetchRow(table, user_id) ==
    IF user_id \in DOMAIN table THEN table[user_id] ELSE NoRow

AuthIdle ==
    [pc |-> "idle", route |-> "", credentials |-> FALSE, token |-> Malformed,
     src |-> <<>>, t |-> 0, decoded |-> "none", payload |-> NoPayload,
     user_id |-> "", looked_up |-> FALSE, role |-> "", handled |-> FALSE,
     cause |-> "", response |-> NoResponse]

\* a request to a route without an Authorization header: HTTPBearer answers
\* and get_current_user is not entered
AuthRequestNoCredentials(route) ==
    /\ auth.pc \in {"idle", "done"}
    /\ \E resp \in MissingCredentialsResponses :
          auth' = [AuthIdle EXCEPT !.pc = "done", !.route = route, !.t = now,
                                   !.cause = "no credentials", !.response = resp]
    /\ UNCHANGED <<now, requests, calls, limMax, limWin, reqs, arrived, metricVars,
                   issued, lastDecode, users, deviceVars, dbVars, lst>>

AuthRequestAccessOnly(route, token) ==
    /\ auth.pc \in {"idle", "done"}
    /\ \E out \in DecodeOutcomes(token, now) :
          LET a == [AuthIdle EXCEPT !.route = route, !.credentials = TRUE,
                                    !.token = token, !.src = SourceOf(token),
                                    !.t = now, !.decoded = out.kind,
                                    !.payload = out.payload]
              user_id == ResolveSubject(out.payload)
          IN  auth' =
                IF out.kind # "ok"
                THEN [a EXCEPT !.pc = "done", !.cause = out.kind,
                               !.response = out.response]
                ELSE IF out.payload.type # "access"
                THEN [a EXCEPT !.pc = "done", !.cause = "wrong kind",
                               !.response = InvalidResponse]
                ELSE IF user_id = <<>>
                THEN [a EXCEPT !.pc = "done", !.cause = "no subject",
                               !.response = MissingSubjectResponse]
                ELSE [a EXCEPT !.pc = "store", !.user_id = user_id[1]]
    /\ UNCHANGED <<now, requests, calls, limMax, limWin, reqs, arrived, metricVars,
                   issued, lastDecode, users, deviceVars, dbVars, lst>>

\* get_current_user up to its await: decode_token, then the test of "sub"
AuthRequest(route, token) ==
    /\ auth.pc \in {"idle", "done"}
    /\ \E out \in DecodeOutcomes(token, now) :
          LET a == [AuthIdle EXCEPT !.route = route, !.credentials = TRUE,
                                    !.token = token, !.src = SourceOf(token),
                                    !.t = now, !.decoded = out.kind,
                                    !.payload = out.payload]
              user_id == ResolveSubject(out.payload)
          IN  auth' =
                IF out.kind # "ok"
                THEN [a EXCEPT !.pc = "done", !.cause = out.kind,
                               !.response = out.response]
                ELSE IF user_id = <<>>
                THEN [a EXCEPT !.pc = "done", !.cause = "no subject",
                               !.response = MissingSubjectResponse]
                ELSE [a EXCEPT !.pc = "store", !.user_id = user_id[1]]
    /\ UNCHANGED <<now, requests, calls, limMax, limWin, reqs, arrived, metricVars,
                   issued, lastDecode, users, deviceVars, dbVars, lst>>

AuthStoreReadTrustsTokenRole ==
    /\ auth.pc = "store"
    /\ LET stored == FetchRow(users, auth.user_id)
           role == IF stored # NoRow /\ "role" \in DOMAIN auth.payload
                   THEN auth.payload.role ELSE stored
           a == [auth EXCEPT !.pc = "done", !.looked_up = TRUE, !.role = stored]
       IN  auth' =
             IF stored = NoRow
             THEN [a EXCEPT !.cause = "user not found",
                            !.response = UserNotFoundResponse]
             ELSE IF auth.route = "admin_only" /\ ~RequireAdmin(role)
             THEN [a EXCEPT !.cause = "forbidden", !.response = ForbiddenResponse]
             ELSE [a EXCEPT !.cause = "handled", !.handled = TRUE,
                            !.response = HandlerResponse]
    /\ UNCHANGED <<now, requests, calls, limMax, limWin, reqs, arrived, metricVars,
                   issued, lastDecode, users, deviceVars, dbVars, lst>>

\* the rest of get_current_user, require_admin on the admin-only route, and
\* the route handler
AuthStoreRead ==
    /\ auth.pc = "store"
    /\ LET role == FetchRow(users, auth.user_id)
           a == [auth EXCEPT !.pc = "done", !.looked_up = TRUE, !.role = role]
       IN  auth' =
             IF role = NoRow
             THEN [a EXCEPT !.cause = "user not found",
                            !.response = UserNotFoundResponse]
             ELSE IF auth.route = "admin_only" /\ ~RequireAdmin(role)
             THEN [a EXCEPT !.cause = "forbidden", !.response = ForbiddenResponse]
             ELSE [a EXCEPT !.cause = "handled", !.handled = TRUE,
                            !.response = HandlerResponse]
    /\ UNCHANGED <<now, requests, calls, limMax, limWin, reqs, arrived, metricVars,
                   issued, lastDecode, users, deviceVars, dbVars, lst>>

\* db_manager.get_pool() raises RuntimeError when the pool was never
\* initialised; the error leaves as an unexpected exception
AuthStoreUnavailable ==
    /\ auth.pc = "store"
    /\ auth' = [auth EXCEPT !.pc = "done", !.cause = "error",
                            !.response = InternalErrorResponse]
    /\ UNCHANGED <<now, requests, calls, limMax, limWin, reqs, arrived, metricVars,
                   issued, lastDecode, users, deviceVars, dbVars, lst>>

\* -------------------------------------------------------- devices router
DeviceIds == {"d1", "d2"}

\* the devices table before any device was created
NoDevices == [d \in {} |-> <<>>]

\* the value of a column that is NULL, and of a field of a DeviceUpdate the
\* request body did not set
Null == "null"
Unset == "unset"

\* the bodies of POST /api/v1/devices (DeviceCreate, without device_id)
CreateBodies ==
    { [name |-> "plug", type |-> "smart_plug", manufacturer |-> Null],
      [name |-> "meter", type |-> "energy_monitor", manufacturer |-> "acme"] }

\* the bodies of PUT /api/v1/devices/{device_id} (DeviceUpdate)
UpdateBodies ==
    { [name |-> Unset, manufacturer |-> Unset],
      [name |-> "renamed", manufacturer |-> Unset],
      [name |-> Unset, manufacturer |-> "corp"],
      [name |-> "renamed", manufacturer |-> "corp"] }

\* device.model_dump(exclude_unset=True): the fields the body supplies
Supplied(body) == {f \in DOMAIN body : body[f] # Unset}

NoCreateBody == [name |-> "", type |-> "", manufacturer |-> Null]
NoUpdateBody == [name |-> Unset, manufacturer |-> Unset]

InsertRowOverwrites(table, device_id, body, t) ==
    [ok |-> TRUE,
     table |-> [d \in (DOMAIN table) \cup {device_id} |->
                  IF d = device_id
                  THEN [name |-> body.name, type |-> body.type,
                        manufacturer |-> body.manufacturer,
                        created_at |-> t, updated_at |-> t]
                  ELSE table[d]]]

\* INSERT INTO devices (...) VALUES (...) RETURNING ...: device_id is the
\* key of the table, a second row with the same key is refused
InsertRow(table, device_id, body, t) ==
    IF device_id \in DOMAIN table
    THEN [ok |-> FALSE, table |-> table]
    ELSE [ok |-> TRUE,
          table |-> [d \in (DOMAIN table) \cup {device_id} |->
                       IF d = device_id
                       THEN [name |-> body.name, type |-> body.type,
                             manufacturer |-> body.manufacturer,
                             created_at |-> t, updated_at |-> t]
                       ELSE table[d]]]

UpdateRowSetsEveryField(row, body, t) ==
    [f \in DOMAIN row |->
        IF f \in DOMAIN body THEN (IF body[f] = Unset THEN Null ELSE body[f])
        ELSE IF f = "updated_at" THEN t
        ELSE row[f]]

\* UPDATE devices SET <field = value, ...>, updated_at = NOW()
UpdateRow(row, body, t) ==
    [f \in DOMAIN row |->
        IF f \in Supplied(body) THEN body[f]
        ELSE IF f = "updated_at" THEN t
        ELSE row[f]]

\* ... WHERE device_id = $n RETURNING ...: ok is "a row was returned"
UpdateDevice(table, device_id, body, t) ==
    IF device_id \in DOMAIN table
    THEN [ok |-> TRUE,
          table |-> [table EXCEPT ![device_id] = UpdateRow(@, body, t)]]
    ELSE [ok |-> FALSE, table |-> table]

DeleteDeviceKeepsRow(table, device_id) ==
    [ok |-> device_id \in DOMAIN table, table |-> table]

\* DELETE FROM devices WHERE device_id = $1: ok is result # "DELETE 0"
DeleteDevice(table, device_id) ==
    [ok |-> device_id \in DOMAIN table,
     table |-> [d \in (DOMAIN table) \ {device_id} |-> table[d]]]

\* the operations of the router: get_device, create_device, update_device,
\* delete_device; the last three depend on require_admin
DeviceOps == {"get", "create", "update", "delete"}
AdminOps == {"create", "update", "delete"}

\* the callers of a request: no Authorization header, or a valid access
\* token of a user of the users table
Callers == {"none"} \cup UserIds

\* what an internal failure of the store says about itself, and the
\* routes' own error responses
StoreErrors == {"pool", "io"}
ErrorText(kind) ==
    IF kind = "pool" THEN "Database pool not initialized"
    ELSE IF kind = "io" THEN "connection refused"
    ELSE "duplicate key value violates unique constraint"

DeviceNotFoundResponse == Response(404, "Device not found", "")
NoFieldsResponse == Response(400, "No fields to update", "")
CreateFailedResponse(text) == Response(400, "Failed to create device: " \o text, "")
CreatedResponse == Response(201, "", "")
DeletedResponse == Response(204, "", "")

DevIdle ==
    [pc |-> "idle", n |-> 0, op |-> "", device_id |-> "", caller |-> "none",
     create_body |-> NoCreateBody, update_body |-> NoUpdateBody,
     role |-> "", cause |-> "", handled |-> FALSE, wrote |-> FALSE,
     failure |-> "", t |-> 0, was_gone |-> FALSE,
     at_start |-> NoDevices, before |-> NoDevices, row |-> <<>>,
     response |-> NoResponse]

\* a request to a device route up to the await of the handler's statement:
\* HTTPBearer, get_current_user, require_admin on the admin-only routes,
\* then the handler's code before its store statement
DeviceRequest(op, device_id, create_body, update_body, caller) ==
    /\ dev.pc \in {"idle", "done"}
    /\ dev.n < MaxDeviceReqs
    /\ op = "create" \/ create_body = NoCreateBody
    /\ op = "update" \/ update_body = NoUpdateBody
    /\ LET role == IF caller = "none" THEN "" ELSE FetchRow(users, caller)
           a == [DevIdle EXCEPT !.n = dev.n + 1, !.op = op,
                                !.device_id = device_id, !.caller = caller,
                                !.create_body = create_body,
                                !.update_body = update_body,
                                !.role = role, !.t = now,
                                !.was_gone = device_id \in gone,
                                !.at_start = devices, !.before = devices]
       IN  IF caller = "none"
           THEN \E resp \in MissingCredentialsResponses :
                   dev' = [a EXCEPT !.pc = "done", !.cause = "no credentials",
                                    !.response = resp]
           ELSE IF role = NoRow
           THEN dev' = [a EXCEPT !.pc = "done", !.cause = "user not found",
                                 !.response = UserNotFoundResponse]
           ELSE IF op \in AdminOps /\ ~RequireAdmin(role)
           THEN dev' = [a EXCEPT !.pc = "done", !.cause = "forbidden",
                                 !.response = ForbiddenResponse]
           ELSE IF op = "update" /\ Supplied(update_body) = {}
           THEN dev' = [a EXCEPT !.pc = "done", !.handled = TRUE,
                                 !.cause = "no fields",
                                 !.response = NoFieldsResponse]
           ELSE dev' = [a EXCEPT !.pc = "store", !.handled = TRUE]
    /\ UNCHANGED <<now, requests, calls, limMax, limWin, reqs, arrived, metricVars,
                   authVars, devices, gone, login, dbVars, lst>>

\* the store statement of the handler and the response built from its result
DeviceStore ==
    /\ dev.pc = "store"
    /\ LET d == dev.device_id
           a == [dev EXCEPT !.pc = "done", !.wrote = TRUE, !.t = now,
                            !.before = devices, !.was_gone = d \in gone]
       IN  CASE dev.op = "get" ->
                  /\ dev' = IF d \in DOMAIN devices
                            THEN [a EXCEPT !.cause = "found", !.row = <<devices[d]>>,
                                           !.response = HandlerResponse]
                            ELSE [a EXCEPT !.cause = "not found",
                                           !.response = DeviceNotFoundResponse]
                  /\ UNCHANGED <<devices, gone>>
            [] dev.op = "create" ->
                  LET res == InsertRow(devices, d, dev.create_body, now)
                  IN  /\ devices' = res.table
                      /\ gone' = IF res.ok THEN gone \ {d} ELSE gone
                      /\ dev' = IF res.ok
                                THEN [a EXCEPT !.cause = "created",
                                               !.row = <<res.table[d]>>,
                                               !.response = CreatedResponse]
                                ELSE [a EXCEPT !.cause = "duplicate",
                                               !.response =
                                                   CreateFailedResponse(ErrorText("unique"))]
            [] dev.op = "update" ->
                  LET res == UpdateDevice(devices, d, dev.update_body, now)
                  IN  /\ devices' = res.table
                      /\ UNCHANGED gone
                      /\ dev' = IF res.ok
                                THEN [a EXCEPT !.cause = "updated",
                                               !.row = <<res.table[d]>>,
                                               !.response = HandlerResponse]
                                ELSE [a EXCEPT !.cause = "not found",
                                               !.response = DeviceNotFoundResponse]
            [] dev.op = "delete" ->
                  LET res == DeleteDevice(devices, d)
                  IN  /\ devices' = res.table
                      /\ gone' = IF res.ok THEN gone \cup {d} ELSE gone
                      /\ dev' = IF res.ok
                                THEN [a EXCEPT !.cause = "deleted",
                                               !.response = DeletedResponse]
                                ELSE [a EXCEPT !.cause = "not found",
                                               !.response = DeviceNotFoundResponse]
    /\ UNCHANGED <<now, requests, calls, limMax, limWin, reqs, arrived, metricVars,
                   authVars, login, dbVars, lst>>

\* the handler fails inside: get_pool raises RuntimeError ("pool"), or the
\* statement fails on the connection ("io").  create_device catches what its
\* try block raises and answers 400 with the text of the error; everything
\* else leaves the handler as an unexpected exception
DeviceStoreFails(kind) ==
    /\ dev.pc = "store"
    /\ dev' = [dev EXCEPT !.pc = "done", !.t = now, !.before = devices,
                          !.failure = kind, !.cause = "internal failure",
                          !.response =
                              IF dev.op = "create" /\ kind = "io"
                              THEN CreateFailedResponse(ErrorText(kind))
                              ELSE InternalErrorResponse]
    /\ UNCHANGED <<now, requests, calls, limMax, limWin, reqs, arrived, metricVars,
                   authVars, devices, gone, login, dbVars, lst>>

\* ------------------------------------------------------- list of devices
\* the devices a table listed by GET /api/v1/devices can hold
ListDeviceIds == {"d1", "d2", "d3"}

\* the type query parameter: Null when absent
TypeFilters == {Null, "smart_plug"}

\* the instants at which the devices were created when they were created
\* one after the other
CreatedOrder(d) == IF d = "d1" THEN 1 ELSE IF d = "d2" THEN 2 ELSE 3

\* the tables the list is asked of: the first k devices, created one after
\* the other or all at the same instant
ListRow(d, t) ==
    [name |-> d, type |-> IF d = "d2" THEN "energy_monitor" ELSE "smart_plug",
     manufacturer |-> Null, created_at |-> t, updated_at |-> t]

ListTables ==
    { [d \in ids |-> ListRow(d, IF spread THEN CreatedOrder(d) ELSE 0)] :
          ids \in {{}, {"d1"}, {"d1", "d2"}, {"d1", "d2", "d3"}},
          spread \in BOOLEAN }

\* WHERE type = $3 when the type parameter is given ("if type:")
Matching(table, type) ==
    {d \in DOMAIN table : type = Null \/ table[d].type = type}

\* SELECT COUNT(*) FROM devices {where_clause}
CountRows(table, type) == Cardinality(Matching(table, type))

\* ORDER BY created_at DESC: the sequences of the matching rows in which no
\* row comes before one created later; rows created at the same instant
\* come in any order
Orderings(table, type) ==
    LET S == Matching(table, type)
        n == Cardinality(S)
    IN  {o \in [1..n -> S] :
            /\ \A i, j \in 1..n : i # j => o[i] # o[j]
            /\ \A i, j \in 1..n : i < j => table[o[i]].created_at >= table[o[j]].created_at}

\* LIMIT $1 OFFSET $2 of an ordering
Slice(o, limit, offset) ==
    SubSeq(o, offset + 1, IF offset + limit < Len(o) THEN offset + limit ELSE Len(o))

\* pages = (total + page_size - 1) // page_size
Pages(total, page_size) == (total + page_size - 1) \div page_size

\* the answer to a list request
ListResponse(status, detail, rows, total, page, page_size, pages) ==
    [status |-> status, detail |-> detail, devices |-> rows, total |-> total,
     page |-> page, page_size |-> page_size, pages |-> pages]

NoListResponse == ListResponse(0, "", <<>>, 0, 0, 0, 0)

\* the 422 of the Query(ge=1) and Query(ge=1, le=100) constraints
ValidationResponse == ListResponse(422, "validation error", <<>>, 0, 0, 0, 0)

ListFailure(resp) == ListResponse(resp.status, resp.detail, <<>>, 0, 0, 0, 0)

ListIdle ==
    [pc |-> "idle", n |-> 0, caller |-> "none", page |-> 1, page_size |-> 1,
     type |-> Null,
     offset |-> 0, total |-> 0, counted |-> NoDevices, fetched |-> NoDevices,
     cause |-> "", response |-> NoListResponse]

\* list_devices up to its first await: the dependencies HTTPBearer and
\* get_current_user, the validation of the query parameters, the offset
ListRequest(caller, page, page_size, type) ==
    /\ lst.pc \in {"idle", "done"}
    /\ lst.n < MaxListReqs
    /\ LET role == IF caller = "none" THEN "" ELSE FetchRow(users, caller)
           a == [ListIdle EXCEPT !.n = lst.n + 1, !.caller = caller, !.page = page,
                                 !.page_size = page_size, !.type = type]
       IN  IF caller = "none"
           THEN \E resp \in MissingCredentialsResponses :
                   lst' = [a EXCEPT !.pc = "done", !.cause = "no credentials",
                                    !.response = ListFailure(resp)]
           ELSE IF role = NoRow
           THEN lst' = [a EXCEPT !.pc = "done", !.cause = "user not found",
                                 !.response = ListFailure(UserNotFoundResponse)]
           ELSE IF page < 1 \/ page_size < 1 \/ page_size > PageSizeLimit
           THEN lst' = [a EXCEPT !.pc = "done", !.cause = "validation",
                                 !.response = ValidationResponse]
           ELSE lst' = [a EXCEPT !.pc = "count",
                                 !.offset = (page - 1) * page_size]
    /\ UNCHANGED <<now, requests, calls, limMax, limWin, reqs, arrived, metricVars,
                   authVars, deviceVars, dbVars>>

\* total = await conn.fetchval(count_query, ...)
ListCount ==
    /\ lst.pc = "count"
    /\ lst' = [lst EXCEPT !.pc = "fetch", !.counted = devices,
                          !.total = CountRows(devices, lst.type)]
    /\ UNCHANGED <<now, requests, calls, limMax, limWin, reqs, arrived, metricVars,
                   authVars, deviceVars, dbVars>>

\* rows = await conn.fetch(query, page_size, offset, ...), then pages and
\* the response; an offset that does not fit the bigint parameter makes
\* fetch raise, and the exception leaves the handler
ListFetch ==
    /\ lst.pc = "fetch"
    /\ IF lst.offset > BigintMax
       THEN lst' = [lst EXCEPT !.pc = "done", !.fetched = devices,
                               !.cause = "offset out of range",
                               !.response = ListFailure(InternalErrorResponse)]
       ELSE \E o \in Orderings(devices, lst.type) :
               lst' = [lst EXCEPT
                          !.pc = "done", !.fetched = devices, !.cause = "listed",
                          !.response =
                              ListResponse(200, "",
                                           Slice(o, lst.page_size, lst.offset),
                                           lst.total, lst.page, lst.page_size,
                                           Pages(lst.total, lst.page_size))]
    /\ UNCHANGED <<now, requests, calls, limMax, limWin, reqs, arrived, metricVars,
                   authVars, deviceVars, dbVars>>

\* get_pool, acquire, fetchval or fetch raises: nothing in list_devices
\* catches it
ListStoreFails ==
    /\ lst.pc \in {"count", "fetch"}
    /\ lst' = [lst EXCEPT !.pc = "done", !.cause = "store error",
                          !.response = ListFailure(InternalErrorResponse)]
    /\ UNCHANGED <<now, requests, calls, limMax, limWin, reqs, arrived, metricVars,
                   authVars, deviceVars, dbVars>>

\* ---------------------------------------------------------------- login
\* the username and the password of the users of the table
UsernameOf(u) == IF u = "u2" THEN "root" ELSE "alice"
PasswordOf(u) == IF u = "u2" THEN "pw-root" ELSE "pw-alice"

\* the fields of a LoginRequest: the usernames of the table and one that no
\* row has; the passwords of the table, each wrong for the other user
Usernames == {"alice", "root", "mallory"}
Passwords == {"pw-alice", "pw-root"}

\* the password_hash column of the row of a user
HashPassword(password) == <<"hash", password>>

\* verify_password(plain_password, password_hash)
VerifyPassword(password, password_hash) == password_hash = HashPassword(password)

\* SELECT user_id, username, email, password_hash, role FROM users
\* WHERE username = $1: <<>> is None
FetchUserByName(table, username) ==
    LET hits == {u \in DOMAIN table : table[u] # NoRow /\ UsernameOf(u) = username}
    IN  IF hits = {} THEN <<>>
        ELSE LET u == CHOOSE x \in hits : TRUE
             IN  <<[user_id |-> u, username |-> username,
                    password_hash |-> HashPassword(PasswordOf(u)),
                    role |-> table[u]]>>

UnknownUserResponseNamesUser == Response(404, "User not found", "")

\* the HTTPException of the "user is None" test of login and of its
\* verify_password test
UnknownUserResponse == Response(401, "Incorrect username or password", "Bearer")
WrongPasswordResponse == Response(401, "Incorrect username or password", "Bearer")

\* TokenResponse(access_token, refresh_token, expires_in=60 * 60)
TokenResponse(access, refresh) ==
    [access_token |-> access.token, refresh_token |-> refresh.token,
     token_type |-> "bearer", expires_in |-> 60 * 60]

LoginIdle ==
    [pc |-> "idle", username |-> "", password |-> "", looked_up |-> FALSE,
     found |-> FALSE, verified |-> FALSE, issued_before |-> {},
     tokens |-> <<>>, response |-> NoResponse]

\* login up to its await: get_pool, then the store read is started
LoginRequest(username, password) ==
    /\ login.pc \in {"idle", "done"}
    /\ login' = [LoginIdle EXCEPT !.pc = "store", !.username = username,
                                  !.password = password]
    /\ UNCHANGED <<now, requests, calls, limMax, limWin, reqs, arrived, metricVars,
                   authVars, devices, gone, dev, dbVars, lst>>

\* get_pool raises RuntimeError, or the store read fails: the error leaves
\* login as an unexpected exception
LoginStoreUnavailable ==
    /\ login.pc = "store"
    /\ login' = [login EXCEPT !.pc = "done", !.issued_before = issued,
                              !.response = InternalErrorResponse]
    /\ UNCHANGED <<now, requests, calls, limMax, limWin, reqs, arrived, metricVars,
                   authVars, devices, gone, dev, dbVars, lst>>

\* the rest of login: the row of the username, verify_password, then the two
\* tokens of the response
LoginStoreRead ==
    /\ login.pc = "store"
    /\ LET user == FetchUserByName(users, login.username)
           found == user # <<>>
           verified == found /\ VerifyPassword(login.password, user[1].password_hash)
           a == [login EXCEPT !.pc = "done", !.looked_up = TRUE, !.found = found,
                              !.verified = verified, !.issued_before = issued]
       IN  IF ~found
           THEN /\ login' = [a EXCEPT !.response = UnknownUserResponse]
                /\ UNCHANGED issued
           ELSE IF ~verified
           THEN /\ login' = [a EXCEPT !.response = WrongPasswordResponse]
                /\ UNCHANGED issued
           ELSE LET token_data == [sub |-> user[1].user_id,
                                   username |-> user[1].username,
                                   role |-> user[1].role]
                    access == Issue("access", token_data, <<>>, now, now)
                    refresh == Issue("refresh", [sub |-> user[1].user_id], <<>>, now, now)
                IN  /\ login' = [a EXCEPT !.response = HandlerResponse,
                                          !.tokens = <<TokenResponse(access, refresh)>>]
                    /\ issued' = issued \cup {access, refresh}
    /\ UNCHANGED <<now, requests, calls, limMax, limWin, reqs, arrived, metricVars,
                   lastDecode, auth, users, devices, gone, dev, dbVars, lst>>

\* ------------------------------------------------------ database manager
\* self.pool = None; a pool is named by its position in pools otherwise
None == 0

\* the tasks that may be inside connect or disconnect at the same time
DbTasks == 1..MaxDbTasks

DbIdle == [pc |-> "idle", seen |-> None]

NoDbCall == [op |-> "none", before |-> None, after |-> None, raised |-> FALSE,
             opened |-> 0, closed |-> 0]

\* what a call that returns or raises leaves for the properties: the pool
\* held when it was called and when it ended, and the numbers of pools it
\* opened and closed
DbCall(op, before, after, raised, opened, closed) ==
    [op |-> op, before |-> before, after |-> after, raised |-> raised,
     opened |-> opened, closed |-> closed]

\* connect up to its await: returns at once when a pool exists, calls
\* asyncpg.create_pool otherwise
Connect(t) ==
    /\ dbcall[t].pc = "idle"
    /\ IF pool # None
       THEN /\ dbLast' = DbCall("connect", pool, pool, FALSE, 0, 0)
            /\ UNCHANGED dbcall
       ELSE /\ dbcall' = [dbcall EXCEPT ![t] = [pc |-> "create_pool", seen |-> pool]]
            /\ UNCHANGED dbLast
    /\ UNCHANGED <<pool, pools>>
    /\ UNCHANGED <<now, requests, calls, limMax, limWin, authVars, reqs, arrived,
                   metricVars, deviceVars, lst>>

\* create_pool returns a new pool and connect stores it in self.pool
CreatePoolReturns(t) ==
    /\ dbcall[t].pc = "create_pool"
    /\ Len(pools) < MaxPools
    /\ pools' = Append(pools, "open")
    /\ pool' = Len(pools) + 1
    /\ dbcall' = [dbcall EXCEPT ![t] = DbIdle]
    /\ dbLast' = DbCall("connect", dbcall[t].seen, Len(pools) + 1, FALSE, 1, 0)
    /\ UNCHANGED <<now, requests, calls, limMax, limWin, authVars, reqs, arrived,
                   metricVars, deviceVars, lst>>

\* create_pool raises (the database does not answer): connect raises and
\* self.pool is not assigned
CreatePoolRaises(t) ==
    /\ dbcall[t].pc = "create_pool"
    /\ dbcall' = [dbcall EXCEPT ![t] = DbIdle]
    /\ dbLast' = DbCall("connect", dbcall[t].seen, pool, TRUE, 0, 0)
    /\ UNCHANGED <<pool, pools>>
    /\ UNCHANGED <<now, requests, calls, limMax, limWin, authVars, reqs, arrived,
                   metricVars, deviceVars, lst>>

\* disconnect up to its await: returns at once when no pool exists, calls
\* close on the pool self.pool holds otherwise
Disconnect(t) ==
    /\ dbcall[t].pc = "idle"
    /\ IF pool = None
       THEN /\ dbLast' = DbCall("disconnect", None, None, FALSE, 0, 0)
            /\ UNCHANGED dbcall
       ELSE /\ dbcall' = [dbcall EXCEPT ![t] = [pc |-> "close", seen |-> pool]]
            /\ UNCHANGED dbLast
    /\ UNCHANGED <<pool, pools>>
    /\ UNCHANGED <<now, requests, calls, limMax, limWin, authVars, reqs, arrived,
                   metricVars, deviceVars, lst>>

\* close returns: the pool it was called on is closed, and disconnect sets
\* self.pool to None
CloseReturns(t) ==
    /\ dbcall[t].pc = "close"
    /\ pools' = [pools EXCEPT ![dbcall[t].seen] = "closed"]
    /\ pool' = None
    /\ dbcall' = [dbcall EXCEPT ![t] = DbIdle]
    /\ dbLast' = DbCall("disconnect", dbcall[t].seen, None, FALSE, 0,
                        IF pools[dbcall[t].seen] = "open" THEN 1 ELSE 0)
    /\ UNCHANGED <<now, requests, calls, limMax, limWin, authVars, reqs, arrived,
                   metricVars, deviceVars, lst>>

\* get_pool: raises RuntimeError when self.pool is None, returns it otherwise
GetPool ==
    /\ dbLast' = DbCall("get_pool", pool, pool, pool = None, 0, 0)
    /\ UNCHANGED <<pool, pools, dbcall>>
    /\ UNCHANGED <<now, requests, calls, limMax, limWin, authVars, reqs, arrived,
                   metricVars, deviceVars, lst>>

\* ------------------------------------------------- middleware pipeline
\* create_app registers CORS, RequestLoggingMiddleware, RateLimitMiddleware
\* and PrometheusMiddleware in this order with add_middleware; each
\* registration wraps the application built so far, so the middleware added
\* last is the outermost.  A request therefore enters PrometheusMiddleware,
\* then RateLimitMiddleware, then RequestLoggingMiddleware, then the router
\* (CORS only adds its own headers and is left out), and the response
\* returns through them in the opposite order.  The handler registered for
\* Exception runs outside all of them.
StackOrder == <<"prometheus", "ratelimit", "logging", "route">>

\* the stage entered after the given one on the way in
NextStage(stage) ==
    LET i == CHOOSE k \in 1..Len(StackOrder) : StackOrder[k] = stage
    IN  StackOrder[i + 1]

\* the stage a response (or exception) leaving the given stage returns to;
\* "outer" is the boundary of the application
ReturnTo(stage) ==
    LET i == CHOOSE k \in 1..Len(StackOrder) : StackOrder[k] = stage
    IN  IF i = 1 THEN "outer" ELSE StackOrder[i - 1] \o "_ret"

\* the requested paths: the liveness probe, the metrics export, the
\* documentation and a route that requires authentication
Paths == {"/health/live", "/metrics", "/docs", "/api/v1/devices"}

\* the literal list in RateLimitMiddleware.dispatch
RateLimitSkipPaths == {"/health", "/metrics", "/", "/docs", "/redoc", "/openapi.json"}

\* routes declared with Depends(get_current_user)
ProtectedPaths == {"/api/v1/devices"}

NoHeaders == <<>>

NewRequest(client, path) ==
    [client |-> client, path |-> path,
     pc |-> StackOrder[1], exc |-> FALSE,
     status |-> 0, retry_after |-> 0, hdr_retry_after |-> "",
     x_request_id |-> "unset", rate_headers |-> NoHeaders,
     inbound |-> "none", request_id |-> "unset",
     checked |-> FALSE, minute_allowed |-> TRUE, hour_allowed |-> TRUE,
     minute_remaining |-> 0, hour_remaining |-> 0,
     measured |-> FALSE, logged |-> FALSE, verified |-> FALSE,
     looked_up |-> FALSE, handled |-> FALSE, recorded |-> FALSE]

\* the concurrently running request tasks
Slots == 1..MaxInFlight

Idle == [NewRequest("", "") EXCEPT !.pc = "idle"]

FreeSlots == {r \in Slots : reqs[r].pc \in {"idle", "done"}}

\* a client sends a request; it enters the outermost middleware, in the
\* place of a request whose response was sent
Arrive(client, path) ==
    /\ arrived < MaxReqs
    /\ FreeSlots # {}
    /\ LET r == CHOOSE x \in FreeSlots : \A y \in FreeSlots : x <= y
       IN  reqs' = [reqs EXCEPT ![r] = NewRequest(client, path)]
    /\ arrived' = arrived + 1
    /\ UNCHANGED <<now, requests, calls, limMax, limWin, authVars, metricVars, deviceVars, dbVars, lst>>

PrometheusDispatchMeasuresAll(r) ==
    /\ reqs[r].pc = "prometheus"
    /\ REQUEST_IN_PROGRESS' = REQUEST_IN_PROGRESS + 1
    /\ reqs' = [reqs EXCEPT ![r].pc = NextStage("prometheus"),
                            ![r].measured = (reqs[r].path # "/metrics")]
    /\ UNCHANGED <<now, requests, calls, limMax, limWin, authVars, arrived,
                   REQUEST_DURATION, REQUEST_COUNT, deviceVars, dbVars, lst>>

\* PrometheusMiddleware.dispatch up to "await call_next(request)"
PrometheusDispatch(r) ==
    /\ reqs[r].pc = "prometheus"
    /\ IF reqs[r].path = "/metrics"
       THEN /\ reqs' = [reqs EXCEPT ![r].pc = NextStage("prometheus")]
            /\ UNCHANGED REQUEST_IN_PROGRESS
       ELSE /\ REQUEST_IN_PROGRESS' = REQUEST_IN_PROGRESS + 1
            /\ reqs' = [reqs EXCEPT ![r].pc = NextStage("prometheus"),
                                    ![r].measured = TRUE]
    /\ UNCHANGED <<now, requests, calls, limMax, limWin, authVars, arrived,
                   REQUEST_DURATION, REQUEST_COUNT, deviceVars, dbVars, lst>>

\* the 429 responses built by RateLimitMiddleware.dispatch
MinuteRejection(q) ==
    [q EXCEPT !.status = 429, !.retry_after = 60, !.hdr_retry_after = "60",
              !.pc = ReturnTo("ratelimit")]

HourRejectionReportsMinute(q) ==
    [q EXCEPT !.status = 429, !.retry_after = 60, !.hdr_retry_after = "60",
              !.pc = ReturnTo("ratelimit")]

HourRejection(q) ==
    [q EXCEPT !.status = 429, !.retry_after = 3600, !.hdr_retry_after = "3600",
              !.pc = ReturnTo("ratelimit")]

\* the decision of RateLimitMiddleware.dispatch once both checks returned
AdmissionHourFirst(q) ==
    IF ~q.hour_allowed THEN HourRejection(q)
    ELSE IF ~q.minute_allowed THEN MinuteRejection(q)
    ELSE [q EXCEPT !.pc = NextStage("ratelimit")]

AdmissionNoShortCircuit(q) ==
    IF ~q.minute_allowed
    THEN [MinuteRejection(q) EXCEPT !.pc = NextStage("ratelimit")]
    ELSE IF ~q.hour_allowed
    THEN [HourRejection(q) EXCEPT !.pc = NextStage("ratelimit")]
    ELSE [q EXCEPT !.pc = NextStage("ratelimit")]

Admission(q) ==
    IF ~q.minute_allowed THEN MinuteRejection(q)
    ELSE IF ~q.hour_allowed THEN HourRejection(q)
    ELSE [q EXCEPT !.pc = NextStage("ratelimit")]

\* the entry a racing read-modify-write would work on: any earlier version
\* of the list
StaleRead(reqmap, key) ==
    IF key \in DOMAIN reqmap /\ reqmap[key] # <<>>
    THEN Put(reqmap, key, SubSeq(reqmap[key], 1, Len(reqmap[key]) - 1))
    ELSE reqmap

CurrentRead(reqmap, key) == reqmap

RateLimitDispatchSuspends(r) ==
    /\ reqs[r].pc = "ratelimit"
    /\ LET mkey == MinuteKey(reqs[r].client)
           m == IsAllowed(requests, mkey, RequestsPerMinute, MinuteWindow, now)
       IN  /\ requests' = m.requests
           /\ calls' = Logged(calls, requests, mkey, RequestsPerMinute, MinuteWindow, now, m)
           /\ reqs' = [reqs EXCEPT ![r].minute_allowed = m.allowed,
                                   ![r].pc = NextStage("ratelimit")]
    /\ UNCHANGED <<now, limMax, limWin, authVars, arrived, metricVars, deviceVars, dbVars, lst>>

\* RateLimitMiddleware.dispatch up to "await call_next(request)" or to the
\* return of a 429: no suspension point lies between the two is_allowed
\* calls nor inside them, so the whole step is one action
RateLimitDispatch(r) ==
    /\ reqs[r].pc = "ratelimit"
    /\ IF reqs[r].path \in RateLimitSkipPaths
       THEN /\ reqs' = [reqs EXCEPT ![r].pc = NextStage("ratelimit")]
            /\ UNCHANGED <<requests, calls>>
       ELSE LET client_ip == reqs[r].client
                mkey == MinuteKey(client_ip)
                hkey == HourKey(client_ip)
                seen == CurrentRead(requests, mkey)
                m == IsAllowed(seen, mkey, RequestsPerMinute, MinuteWindow, now)
                h == IsAllowed(m.requests, hkey, RequestsPerHour, HourWindow, now)
                q == [reqs[r] EXCEPT !.checked = TRUE,
                                     !.minute_allowed = m.allowed,
                                     !.minute_remaining = m.remaining,
                                     !.hour_allowed = h.allowed,
                                     !.hour_remaining = h.remaining]
            IN  /\ requests' = h.requests
                /\ calls' = Logged(
                       Logged(calls, seen, mkey, RequestsPerMinute, MinuteWindow, now, m),
                       m.requests, hkey, RequestsPerHour, HourWindow, now, h)
                /\ reqs' = [reqs EXCEPT ![r] = Admission(q)]
    /\ UNCHANGED <<now, limMax, limWin, authVars, arrived, metricVars, deviceVars, dbVars, lst>>

\* request.headers.get("X-Request-ID", str(uuid.uuid4()))
RequestId(inbound) == IF inbound # "none" THEN inbound ELSE "uuid4"

\* the values of the inbound X-Request-ID header; "none": the header is absent
InboundIds == {"none", "req-1"}

\* RequestLoggingMiddleware.dispatch up to "await call_next(request)"; the
\* inbound header is an input of the request, read here
LoggingDispatch(r, inbound) ==
    /\ reqs[r].pc = "logging"
    /\ reqs' = [reqs EXCEPT
           ![r].inbound = inbound,
           ![r].request_id = RequestId(inbound),
           ![r].logged = TRUE,
           ![r].pc = NextStage("logging")]
    /\ UNCHANGED <<now, requests, calls, limMax, limWin, authVars, arrived, metricVars, deviceVars, dbVars, lst>>

\* a route without an authentication requirement: the liveness, metrics and
\* documentation handlers
RouteHandler(r) ==
    /\ reqs[r].pc = "route"
    /\ reqs[r].path \notin ProtectedPaths
    /\ reqs' = [reqs EXCEPT ![r].status = 200,
                            ![r].handled = TRUE,
                            ![r].pc = ReturnTo("route")]
    /\ UNCHANGED <<now, requests, calls, limMax, limWin, authVars, arrived, metricVars, deviceVars, dbVars, lst>>

\* the bearer tokens a request can carry: one decode_token rejects (expired,
\* or not valid), one it accepts
Tokens == {"bad", "good"}

\* get_current_user up to the store read: decode_token, then get_pool; the
\* token is an input of the request, read here
Authenticate(r, token) ==
    /\ reqs[r].pc = "route"
    /\ reqs[r].path \in ProtectedPaths
    /\ \/ /\ token = "bad"
          \* an expired token, or one without "sub"
          /\ reqs' = [reqs EXCEPT ![r].verified = TRUE,
                                  ![r].status = 401,
                                  ![r].pc = ReturnTo("route")]
       \/ /\ token = "good"
          /\ reqs' = [reqs EXCEPT ![r].verified = TRUE, ![r].pc = "store"]
       \/ /\ token = "bad"
          \* a token that is not valid: the except clause of decode_token
          \* names jwt.JWTError, which the jwt module does not have
          /\ reqs' = [reqs EXCEPT ![r].verified = TRUE,
                                  ![r].exc = TRUE,
                                  ![r].pc = ReturnTo("route")]
       \/ /\ token = "good"
          \* get_pool raises RuntimeError: no pool
          /\ reqs' = [reqs EXCEPT ![r].verified = TRUE,
                                  ![r].exc = TRUE,
                                  ![r].pc = ReturnTo("route")]
    /\ UNCHANGED <<now, requests, calls, limMax, limWin, authVars, arrived, metricVars, deviceVars, dbVars, lst>>

\* the awaited store read of get_current_user and the handler body
StoreLookup(r) ==
    /\ reqs[r].pc = "store"
    /\ \/ reqs' = [reqs EXCEPT ![r].looked_up = TRUE,
                               ![r].handled = TRUE,
                               ![r].status = 200,
                               ![r].pc = ReturnTo("route")]
       \/ reqs' = [reqs EXCEPT ![r].looked_up = TRUE,
                               ![r].status = 401,
                               ![r].pc = ReturnTo("route")]
       \/ reqs' = [reqs EXCEPT ![r].looked_up = TRUE,
                               ![r].exc = TRUE,
                               ![r].pc = ReturnTo("route")]
    /\ UNCHANGED <<now, requests, calls, limMax, limWin, authVars, arrived, metricVars, deviceVars, dbVars, lst>>

\* RequestLoggingMiddleware.dispatch after call_next: an exception raised
\* below leaves the method at the await, a response is stamped
LoggingReturn(r) ==
    /\ reqs[r].pc = "logging_ret"
    /\ reqs' = [reqs EXCEPT
           ![r].x_request_id = IF reqs[r].exc THEN @ ELSE reqs[r].request_id,
           ![r].pc = ReturnTo("logging")]
    /\ UNCHANGED <<now, requests, calls, limMax, limWin, authVars, arrived, metricVars, deviceVars, dbVars, lst>>

\* RateLimitMiddleware.dispatch after call_next: the skipped paths return
\* the response as it is, an exception leaves the method at the await
RateLimitReturn(r) ==
    /\ reqs[r].pc = "ratelimit_ret"
    /\ reqs' = [reqs EXCEPT
           ![r].rate_headers =
               IF reqs[r].exc \/ ~reqs[r].checked THEN @
               ELSE <<RequestsPerMinute, reqs[r].minute_remaining,
                      RequestsPerHour, reqs[r].hour_remaining>>,
           ![r].pc = ReturnTo("ratelimit")]
    /\ UNCHANGED <<now, requests, calls, limMax, limWin, authVars, arrived, metricVars, deviceVars, dbVars, lst>>

\* PrometheusMiddleware.dispatch after call_next: duration and count are
\* recorded for a response, the finally clause decrements the gauge also
\* when an exception passes through
PrometheusReturn(r) ==
    /\ reqs[r].pc = "prometheus_ret"
    /\ IF reqs[r].path = "/metrics"
       THEN UNCHANGED metricVars
       ELSE /\ REQUEST_IN_PROGRESS' = REQUEST_IN_PROGRESS - 1
            /\ IF reqs[r].exc
               THEN UNCHANGED <<REQUEST_DURATION, REQUEST_COUNT>>
               ELSE /\ REQUEST_DURATION' = REQUEST_DURATION + 1
                    /\ REQUEST_COUNT' =
                           [REQUEST_COUNT EXCEPT ![reqs[r].status] = @ + 1]
    /\ reqs' = [reqs EXCEPT
           ![r].recorded = (reqs[r].path # "/metrics" /\ ~reqs[r].exc),
           ![r].pc = ReturnTo("prometheus")]
    /\ UNCHANGED <<now, requests, calls, limMax, limWin, authVars, arrived, deviceVars, dbVars, lst>>

\* the boundary of the application: a response is sent as it is; an
\* exception reaches global_exception_handler, which answers 500
GlobalExceptionHandler(r) ==
    /\ reqs[r].pc = "outer"
    /\ reqs' = [reqs EXCEPT
           ![r].status = IF reqs[r].exc THEN 500 ELSE @,
           ![r].pc = "done"]
    /\ UNCHANGED <<now, requests, calls, limMax, limWin, authVars, arrived, metricVars, deviceVars, dbVars, lst>>

\* the status codes a response passing PrometheusMiddleware can carry
Statuses == {200, 401, 429}

Init ==
    /\ now = 0
    /\ requests = EmptyMap
    /\ calls = [k \in Keys |-> <<>>]
    /\ limMax = RequestsPerMinute
    /\ limWin = MinuteWindow
    /\ reqs = [r \in Slots |-> Idle]
    /\ arrived = 0
    /\ REQUEST_IN_PROGRESS = 0
    /\ REQUEST_DURATION = 0
    /\ REQUEST_COUNT = [s \in Statuses |-> 0]
    /\ issued = {}
    /\ lastDecode = NoDecode
    /\ auth = AuthIdle
    /\ users = DefaultUsers
    /\ devices = NoDevices
    /\ gone = {}
    /\ dev = DevIdle
    /\ login = LoginIdle
    /\ pool = None
    /\ pools = <<>>
    /\ dbcall = [t \in DbTasks |-> DbIdle]
    /\ dbLast = NoDbCall
    /\ lst = ListIdle

Next ==
    \/ Tick
    \/ \E client \in PipelineClients, path \in Paths : Arrive(client, path)
    \/ \E r \in Slots :
          \/ PrometheusDispatch(r)
          \/ RateLimitDispatch(r)
          \/ \E inbound \in InboundIds : LoggingDispatch(r, inbound)
          \/ RouteHandler(r)
          \/ \E token \in Tokens : Authenticate(r, token)
          \/ StoreLookup(r)
          \/ LoggingReturn(r)
          \/ RateLimitReturn(r)
          \/ PrometheusReturn(r)
          \/ GlobalExceptionHandler(r)

Spec == Init /\ [][Next]_vars

\* ------------------------------------------- the limiter on its own
LimiterKeys == {MinuteKey(c) : c \in Clients} \cup {HourKey(c) : c \in PipelineClients}

InitLimiter ==
    /\ now = 0
    /\ requests = EmptyMap
    /\ calls = [k \in Keys |-> <<>>]
    /\ limMax \in 0..MaxLimit
    /\ limWin \in 1..MaxWindow
    /\ reqs = [r \in Slots |-> Idle]
    /\ arrived = 0
    /\ REQUEST_IN_PROGRESS = 0
    /\ REQUEST_DURATION = 0
    /\ REQUEST_COUNT = [s \in {} |-> 0]
    /\ issued = {}
    /\ lastDecode = NoDecode
    /\ auth = AuthIdle
    /\ users = DefaultUsers
    /\ devices = NoDevices
    /\ gone = {}
    /\ dev = DevIdle
    /\ login = LoginIdle
    /\ pool = None
    /\ pools = <<>>
    /\ dbcall = [t \in DbTasks |-> DbIdle]
    /\ dbLast = NoDbCall
    /\ lst = ListIdle

NextLimiter ==
    \/ Tick
    \/ \E key \in LimiterKeys : LimiterCheck(key)

SpecLimiter == InitLimiter /\ [][NextLimiter]_vars

\* ---------------------------------------- the JWT manager on its own
InitToken ==
    /\ now = 0
    /\ requests = EmptyMap
    /\ calls = [k \in Keys |-> <<>>]
    /\ limMax = RequestsPerMinute
    /\ limWin = MinuteWindow
    /\ reqs = [r \in Slots |-> Idle]
    /\ arrived = 0
    /\ REQUEST_IN_PROGRESS = 0
    /\ REQUEST_DURATION = 0
    /\ REQUEST_COUNT = [s \in {} |-> 0]
    /\ issued = {}
    /\ lastDecode = NoDecode
    /\ auth = AuthIdle
    /\ users = DefaultUsers
    /\ devices = NoDevices
    /\ gone = {}
    /\ dev = DevIdle
    /\ login = LoginIdle
    /\ pool = None
    /\ pools = <<>>
    /\ dbcall = [t \in DbTasks |-> DbIdle]
    /\ dbLast = NoDbCall
    /\ lst = ListIdle

NextToken ==
    \/ Tick
    \/ \E data \in ClaimSets, expires_delta \in ExpiresDeltas, advance \in {0, 1} :
          \/ CreateAccessToken(data, expires_delta, advance)
          \/ CreateRefreshToken(data, expires_delta, advance)
    \/ \E token \in Presentable : DecodeToken(token)

SpecToken == InitToken /\ [][NextToken]_vars

\* ------------------------------------ identity resolution on its own
InitAuth ==
    /\ now = 0
    /\ requests = EmptyMap
    /\ calls = [k \in Keys |-> <<>>]
    /\ limMax = RequestsPerMinute
    /\ limWin = MinuteWindow
    /\ reqs = [r \in Slots |-> Idle]
    /\ arrived = 0
    /\ REQUEST_IN_PROGRESS = 0
    /\ REQUEST_DURATION = 0
    /\ REQUEST_COUNT = [s \in {} |-> 0]
    /\ issued = {}
    /\ lastDecode = NoDecode
    /\ auth = AuthIdle
    /\ users \in UserStores
    /\ devices = NoDevices
    /\ gone = {}
    /\ dev = DevIdle
    /\ login = LoginIdle
    /\ pool = None
    /\ pools = <<>>
    /\ dbcall = [t \in DbTasks |-> DbIdle]
    /\ dbLast = NoDbCall
    /\ lst = ListIdle

NextAuth ==
    \/ Tick
    \/ \E data \in ClaimSets, expires_delta \in ExpiresDeltas :
          CreateAccessToken(data, expires_delta, 0)
    \/ \E route \in AuthRoutes :
          \/ AuthRequestNoCredentials(route)
          \/ \E token \in Presentable : AuthRequest(route, token)
    \/ AuthStoreRead
    \/ AuthStoreUnavailable

SpecAuth == InitAuth /\ [][NextAuth]_vars

\* ------------------------- identity resolution with both kinds of token
\* tokens of both kinds are issued with their default lifetimes and
\* presented to the two routes
NextRefresh ==
    \/ Tick
    \/ \E data \in ClaimSets :
          \/ CreateAccessToken(data, <<>>, 0)
          \/ CreateRefreshToken(data, <<>>, 0)
    \/ \E route \in AuthRoutes, token \in IssuedTokens : AuthRequest(route, token)
    \/ AuthStoreRead
    \/ AuthStoreUnavailable

SpecRefresh == InitAuth /\ [][NextRefresh]_vars

\* ------------------------------------------ database manager on its own
NextDatabase ==
    \/ \E t \in DbTasks :
          \/ Connect(t)
          \/ CreatePoolReturns(t)
          \/ CreatePoolRaises(t)
          \/ Disconnect(t)
          \/ CloseReturns(t)
    \/ GetPool

SpecDatabase == Init /\ [][NextDatabase]_vars

\* ------------------------------------------- list of devices on its own
InitList ==
    /\ now = 0
    /\ requests = EmptyMap
    /\ calls = [k \in Keys |-> <<>>]
    /\ limMax = RequestsPerMinute
    /\ limWin = MinuteWindow
    /\ reqs = [r \in Slots |-> Idle]
    /\ arrived = 0
    /\ REQUEST_IN_PROGRESS = 0
    /\ REQUEST_DURATION = 0
    /\ REQUEST_COUNT = [s \in {} |-> 0]
    /\ issued = {}
    /\ lastDecode = NoDecode
    /\ auth = AuthIdle
    /\ users = DefaultUsers
    /\ devices \in ListTables
    /\ gone = {}
    /\ dev = DevIdle
    /\ login = LoginIdle
    /\ pool = None
    /\ pools = <<>>
    /\ dbcall = [t \in DbTasks |-> DbIdle]
    /\ dbLast = NoDbCall
    /\ lst = ListIdle

\* list requests, and an admin who deletes devices meanwhile
NextList ==
    \/ \E caller \in Callers, page \in 0..MaxPage,
          page_size \in 0..(PageSizeLimit + 1), type \in TypeFilters :
          ListRequest(caller, page, page_size, type)
    \/ ListCount
    \/ ListFetch
    \/ ListStoreFails
    \/ \E device_id \in DeviceIds :
          DeviceRequest("delete", device_id, NoCreateBody, NoUpdateBody, "u2")
    \/ DeviceStore

SpecList == InitList /\ [][NextList]_vars

\* ------------------------------------------------- login on its own
InitLogin ==
    /\ now = 0
    /\ requests = EmptyMap
    /\ calls = [k \in Keys |-> <<>>]
    /\ limMax = RequestsPerMinute
    /\ limWin = MinuteWindow
    /\ reqs = [r \in Slots |-> Idle]
    /\ arrived = 0
    /\ REQUEST_IN_PROGRESS = 0
    /\ REQUEST_DURATION = 0
    /\ REQUEST_COUNT = [s \in {} |-> 0]
    /\ issued = {}
    /\ lastDecode = NoDecode
    /\ auth = AuthIdle
    /\ users \in UserStores
    /\ devices = NoDevices
    /\ gone = {}
    /\ dev = DevIdle
    /\ login = LoginIdle
    /\ pool = None
    /\ pools = <<>>
    /\ dbcall = [t \in DbTasks |-> DbIdle]
    /\ dbLast = NoDbCall
    /\ lst = ListIdle

NextLogin ==
    \/ Tick
    \/ \E username \in Usernames, password \in Passwords : LoginRequest(username, password)
    \/ LoginStoreRead
    \/ LoginStoreUnavailable

SpecLogin == InitLogin /\ [][NextLogin]_vars

\* --------------------------------------- the devices router on its own
InitDevices ==
    /\ now = 0
    /\ requests = EmptyMap
    /\ calls = [k \in Keys |-> <<>>]
    /\ limMax = RequestsPerMinute
    /\ limWin = MinuteWindow
    /\ reqs = [r \in Slots |-> Idle]
    /\ arrived = 0
    /\ REQUEST_IN_PROGRESS = 0
    /\ REQUEST_DURATION = 0
    /\ REQUEST_COUNT = [s \in {} |-> 0]
    /\ issued = {}
    /\ lastDecode = NoDecode
    /\ auth = AuthIdle
    /\ users = DefaultUsers
    /\ devices = NoDevices
    /\ gone = {}
    /\ dev = DevIdle
    /\ login = LoginIdle
    /\ pool = None
    /\ pools = <<>>
    /\ dbcall = [t \in DbTasks |-> DbIdle]
    /\ dbLast = NoDbCall
    /\ lst = ListIdle

NextDevices ==
    \/ Tick
    \/ \E device_id \in DeviceIds, caller \in Callers :
          \/ \E op \in DeviceOps \ {"create", "update"} :
                DeviceRequest(op, device_id, NoCreateBody, NoUpdateBody, caller)
          \/ \E create_body \in CreateBodies :
                DeviceRequest("create", device_id, create_body, NoUpdateBody, caller)
          \/ \E update_body \in UpdateBodies :
                DeviceRequest("update", device_id, NoCreateBody, update_body, caller)
    \/ DeviceStore
    \/ \E kind \in StoreErrors : DeviceStoreFails(kind)

SpecDevices == InitDevices /\ [][NextDevices]_vars

\* ------------------------------------------------- properties: limiter
\* indexes of the admitted calls of a log whose timestamp lies in (lo, hi]
AdmittedIn(log, lo, hi) ==
    {i \in 1..Len(log) : log[i].allowed /\ log[i].t > lo /\ log[i].t <= hi}

\* indexes of the calls admitted before call i with a timestamp after lo
AdmittedBefore(log, i, lo) ==
    {j \in 1..(i - 1) : log[j].allowed /\ log[j].t > lo}

\* C1: at every check instant, and at the current clock value, the number
\* of admitted calls of a key whose timestamp lies in
\* (now - window_seconds, now] is at most max_requests.
C1_WindowBound ==
    \A key \in Keys :
        /\ \A i \in 1..Len(calls[key]) :
              LET c == calls[key][i]
              IN  Cardinality(AdmittedIn(calls[key], c.t - c.win, c.t)) <= c.max
        /\ calls[key] # <<>> =>
              LET c == calls[key][1]
              IN  Cardinality(AdmittedIn(calls[key], now - c.win, now)) <= c.max

\* a key whose quota is used up: max_requests >= 1 admitted calls inside the
\* window of a call that was rejected
C1_Witness ==
    \E key \in Keys : \E i \in 1..Len(calls[key]) :
        LET c == calls[key][i]
        IN  /\ c.max >= 1
            /\ ~c.allowed
            /\ Cardinality(AdmittedIn(calls[key], c.t - c.win, c.t)) = c.max

\* C2 (P1): from an empty entry, the first max_requests calls made within
\* window_seconds of the first call are all admitted; the (max_requests+1)-th
\* call within that window is rejected; and a call made when the oldest
\* recorded timestamp has fallen outside the window is admitted.
C2_SlidingWindow ==
    \A key \in Keys :
        LET log == calls[key]
        IN  log # <<>> =>
            LET max == log[1].max
                win == log[1].win
            IN  /\ \A i \in 1..Len(log) :
                      (i <= max /\ log[i].t < log[1].t + win) => log[i].allowed
                /\ (Len(log) >= max + 1 /\ log[max + 1].t < log[1].t + win)
                      => ~log[max + 1].allowed
                /\ \A i \in 1..Len(log) :
                      (log[i].before # <<>> /\ Head(log[i].before) <= log[i].t - win)
                          => log[i].allowed

\* a full quota, a rejection inside the window, and a later call admitted
\* because the oldest recorded timestamp left the window
C2_Witness ==
    \E key \in Keys : \E i, j \in 1..Len(calls[key]) :
        LET log == calls[key]
        IN  /\ log[1].max >= 1
            /\ i = log[1].max + 1
            /\ log[i].t < log[1].t + log[1].win
            /\ ~log[i].allowed
            /\ i < j
            /\ log[j].before # <<>>
            /\ Head(log[j].before) <= log[j].t - log[1].win
            /\ log[j].allowed

\* C3 (P2): a rejected call records nothing: it leaves the entry as it was
\* apart from dropping the expired timestamps, and a call is admitted
\* exactly when fewer than max_requests ADMITTED calls lie in its window,
\* whatever the number of rejected calls in between.
C3_RejectedNotRecorded ==
    \A key \in Keys : \A i \in 1..Len(calls[key]) :
        LET c == calls[key][i]
        IN  /\ ~c.allowed =>
                c.after = SelectSeq(c.before, LAMBDA ts : ts > c.t - c.win)
            /\ c.allowed <=>
                Cardinality(AdmittedBefore(calls[key], i, c.t - c.win)) < c.max

\* max_requests admitted calls, then a rejected call, then max_requests
\* admitted calls again
C3_Witness ==
    \E key \in Keys : \E i \in 1..Len(calls[key]) :
        LET log == calls[key]
        IN  /\ log[i].max >= 1
            /\ ~log[i].allowed
            /\ Cardinality({j \in 1..(i - 1) : log[j].allowed}) = log[i].max
            /\ Cardinality({j \in (i + 1)..Len(log) : log[j].allowed}) = log[i].max

\* C24: limiter state changes only inside an is_allowed call and only for
\* the key of that call: every step that creates or changes the entry of a
\* key is one is_allowed call on that key, and it leaves the entry of every
\* other key as it was; a step without a call (the clock) changes nothing
C24_FrameOfCheck ==
    [][ /\ \A k \in Keys :
              \/ Len(calls'[k]) = Len(calls[k]) + 1
              \/ /\ (k \in DOMAIN requests') = (k \in DOMAIN requests)
                 /\ Entry(requests', k) = Entry(requests, k)
        /\ calls' = calls => requests' = requests ]_vars

\* a client's hour entry was left alone by later checks on its minute key
\* and on the minute key of another client
C24_Witness ==
    /\ HourKey("10.0.0.1") \in DOMAIN requests
    /\ Len(calls[HourKey("10.0.0.1")]) = 1
    /\ Len(calls[MinuteKey("10.0.0.1")]) >= 1
    /\ Len(calls[MinuteKey("10.0.0.2")]) >= 1
    /\ calls[MinuteKey("10.0.0.1")][1].t > calls[HourKey("10.0.0.1")][1].t
    /\ requests[HourKey("10.0.0.1")] = calls[HourKey("10.0.0.1")][1].after
    /\ requests[HourKey("10.0.0.1")] # <<>>

\* C25: the limiter has no eviction: a key that was checked is in the map
\* in every later state, and the entry of a key is changed (pruned) only by
\* a later check on that key, so the timestamp of a client that never
\* returns stays in its entry after it has left the window
C25_NoEviction ==
    /\ [](\A k \in Keys : Len(calls[k]) > 0 => k \in DOMAIN requests)
    /\ [][\A k \in DOMAIN requests :
              /\ k \in DOMAIN requests'
              /\ Len(calls'[k]) = Len(calls[k]) => requests'[k] = requests[k]]_vars

\* one admitted request on a key, no later check on it, and its timestamp
\* is still there when it is no longer inside the window
C25_Witness ==
    \E k \in Keys :
        /\ Len(calls[k]) = 1
        /\ calls[k][1].allowed
        /\ k \in DOMAIN requests
        /\ requests[k] = <<calls[k][1].t>>
        /\ calls[k][1].t <= now - limWin

\* ------------------------------------------------ properties: pipeline
\* the timestamps of the admitted calls of a log, in call order
RECURSIVE AdmittedTimes(_)
AdmittedTimes(log) ==
    IF log = <<>> THEN <<>>
    ELSE IF Head(log).allowed
         THEN <<Head(log).t>> \o AdmittedTimes(Tail(log))
         ELSE AdmittedTimes(Tail(log))

\* C4: whatever the interleaving of the requests in flight, the entry of a
\* key never holds more than max_requests timestamps inside the window, and
\* it holds every admitted timestamp that is still inside the window (none
\* was lost to an overwrite by another request).
C4_AtomicCheck ==
    \A key \in DOMAIN requests :
        LET last == calls[key][Len(calls[key])]
            live == SelectSeq(requests[key], LAMBDA ts : ts > now - last.win)
        IN  /\ Len(live) <= last.max
            /\ live = SelectSeq(AdmittedTimes(calls[key]),
                                LAMBDA ts : ts > now - last.win)

\* two requests of one client are in flight together, both past the
\* admission checks, one admitted and one rejected
C4_Witness ==
    \E r1, r2 \in Slots :
        /\ r1 # r2
        /\ reqs[r1].client = reqs[r2].client
        /\ reqs[r1].checked /\ reqs[r2].checked
        /\ reqs[r1].pc \notin {"idle", "done"}
        /\ reqs[r2].pc \notin {"idle", "done"}
        /\ reqs[r1].minute_allowed /\ ~reqs[r2].minute_allowed

\* C5: a request rejected by the admission stage is answered 429 at once:
\* neither the logging stage below it, nor the route handler, nor the token
\* verification, nor the store lookup runs for it.
C5_ShortCircuit ==
    \A r \in Slots :
        (reqs[r].checked /\ (~reqs[r].minute_allowed \/ ~reqs[r].hour_allowed)) =>
            /\ reqs[r].status = 429
            /\ reqs[r].pc \in {"prometheus_ret", "outer", "done"}
            /\ ~reqs[r].logged
            /\ ~reqs[r].handled
            /\ ~reqs[r].verified
            /\ ~reqs[r].looked_up

\* a rejected request whose 429 response was sent
C5_Witness ==
    \E r \in Slots :
        /\ reqs[r].checked
        /\ ~reqs[r].minute_allowed \/ ~reqs[r].hour_allowed
        /\ reqs[r].status = 429
        /\ reqs[r].pc = "done"

\* C6 (P3): a request is rejected exactly when one of the two checks denies
\* it, and when both deny it the response is the minute violation:
\* retry_after 60 and Retry-After: 60.
C6_MinutePrecedence ==
    \A r \in Slots :
        /\ reqs[r].checked =>
              ((reqs[r].status = 429) <=>
                   (~reqs[r].minute_allowed \/ ~reqs[r].hour_allowed))
        /\ (reqs[r].checked /\ ~reqs[r].minute_allowed /\ ~reqs[r].hour_allowed) =>
              /\ reqs[r].retry_after = 60
              /\ reqs[r].hdr_retry_after = "60"

\* a request denied by both checks got its response
C6_Witness ==
    \E r \in Slots :
        /\ reqs[r].checked
        /\ ~reqs[r].minute_allowed
        /\ ~reqs[r].hour_allowed
        /\ reqs[r].pc = "done"

\* C7: every response, the 429 of the admission stage included, carries
\* X-Request-ID: the inbound id when the request had one, else a generated
\* one.
C7_EveryResponseStamped ==
    \A r \in Slots :
        reqs[r].pc = "done" => reqs[r].x_request_id = RequestId(reqs[r].inbound)

\* C8: a request rejected with 429 never reaches the metrics stage: it is
\* not counted in the gauge, the histogram or the request counter.
C8_RejectedNotMeasured ==
    /\ \A r \in Slots : reqs[r].status = 429 => ~reqs[r].measured
    /\ REQUEST_COUNT[429] = 0

\* C9: every response to a request on a path outside the bypass list
\* carries the four X-RateLimit-* headers, whatever the outcome.
C9_QuotaHeadersAlways ==
    \A r \in Slots :
        (reqs[r].pc = "done" /\ reqs[r].path \notin RateLimitSkipPaths) =>
            reqs[r].rate_headers # NoHeaders

\* C10: requests to the liveness, readiness, metrics and docs paths bypass
\* the admission stage: none is answered 429 and none touches the limiter.
C10_ProbesBypassAdmission ==
    \A r \in Slots :
        reqs[r].path \in {"/health/live", "/health/ready", "/metrics", "/docs"} =>
            /\ reqs[r].status # 429
            /\ ~reqs[r].checked

\* C11: every request that entered the metrics stage on a path other than
\* /metrics has its duration and status recorded when it leaves the stage,
\* also when the handler raised; and the in-flight gauge equals the number
\* of requests inside the stage and is never negative.
C11_MetricsAlwaysRecorded ==
    /\ \A r \in Slots :
          (reqs[r].measured /\ reqs[r].pc \in {"outer", "done"}) => reqs[r].recorded
    /\ REQUEST_IN_PROGRESS =
          Cardinality({r \in Slots : reqs[r].measured
                                      /\ reqs[r].pc \notin {"outer", "done"}})
    /\ REQUEST_IN_PROGRESS >= 0

\* the number of unexpired timestamps of the key before a call
CountBefore(c) == Len(SelectSeq(c.before, LAMBDA ts : ts > c.t - c.win))

\* C12: is_allowed returns (true, max_requests - count - 1), count being the
\* number of unexpired timestamps before the call, and (false, 0) when
\* count >= max_requests; an admitted call's remaining value lies in
\* 0..max_requests-1 and is max_requests minus the size of the entry after
\* the call; the first max_requests calls inside one window on a fresh key
\* return max_requests-1 down to 0 and the next one (false, 0).
C12_ReturnValue ==
    \A key \in Keys : \A i \in 1..Len(calls[key]) :
        LET log == calls[key]
            c == log[i]
            inFirstWindow == log[i].t < log[1].t + c.win
        IN  /\ c.allowed <=> CountBefore(c) < c.max
            /\ c.allowed =>
                  /\ c.remaining = c.max - CountBefore(c) - 1
                  /\ c.remaining \in 0..(c.max - 1)
                  /\ c.remaining = c.max - Len(c.after)
            /\ ~c.allowed => c.remaining = 0
            /\ (i <= c.max /\ inFirstWindow) =>
                  (c.allowed /\ c.remaining = c.max - i)
            /\ (i = c.max + 1 /\ inFirstWindow) =>
                  (~c.allowed /\ c.remaining = 0)

\* a fresh key with a quota of at least 2: the remaining value went down to
\* 0 and the next call returned (false, 0)
C12_Witness ==
    \E key \in Keys :
        LET log == calls[key]
        IN  /\ log # <<>>
            /\ log[1].max >= 2
            /\ Len(log) >= log[1].max + 1
            /\ log[log[1].max + 1].t < log[1].t + log[1].win
            /\ log[1].remaining = log[1].max - 1
            /\ log[log[1].max].allowed
            /\ log[log[1].max].remaining = 0
            /\ ~log[log[1].max + 1].allowed
            /\ log[log[1].max + 1].remaining = 0

\* C13 as stated: at every instant the entry of a key holds only timestamps
\* strictly newer than now - window length.
C13_OnlyFreshAtAnyInstant ==
    \A key \in DOMAIN requests :
        \A i \in 1..Len(requests[key]) :
            requests[key][i] > now - calls[key][Len(calls[key])].win

\* C13 as amended: right after a check of a key its entry holds only
\* timestamps strictly newer than the check time minus the window length (a
\* timestamp equal to it is dropped), and the entry stays as the last check
\* left it until the next check of the key.
C13_FreshAfterCheck ==
    \A key \in Keys :
        /\ \A i \in 1..Len(calls[key]) :
              LET c == calls[key][i]
              IN  /\ \A j \in 1..Len(c.after) : c.after[j] > c.t - c.win
                  /\ \A j \in 1..Len(c.before) :
                        c.before[j] > c.t - c.win =>
                            \E k \in 1..Len(c.after) : c.after[k] = c.before[j]
        /\ calls[key] # <<>> =>
              Entry(requests, key) = calls[key][Len(calls[key])].after

\* a check found a timestamp exactly window_seconds old and dropped it
C13_Witness ==
    \E key \in Keys : \E i \in 1..Len(calls[key]) :
        LET c == calls[key][i]
        IN  /\ \E j \in 1..Len(c.before) : c.before[j] = c.t - c.win
            /\ \A j \in 1..Len(c.after) : c.after[j] # c.t - c.win

\* C23: no request is in the middle of its admission checks, or (the
\* limiter having no lock) holds anything of the limiter, while a request
\* is suspended on store I/O: a request waiting for the store has both
\* checks behind it, the minute and the hour check of a request are made in
\* one step, and the only steps that touch the limiter are the admission of
\* a request that was not checked before
C23_ChecksDoneBeforeSuspension ==
    /\ [](\A r \in Slots :
            /\ reqs[r].pc = "store" => reqs[r].checked
            /\ reqs[r].checked => reqs[r].pc # "ratelimit")
    /\ [](\A c \in Clients : Len(calls[MinuteKey(c)]) = Len(calls[HourKey(c)]))
    /\ [][(requests' # requests \/ calls' # calls) =>
            \E r \in Slots :
                /\ reqs[r].pc = "ratelimit" /\ ~reqs[r].checked
                /\ reqs'[r].checked /\ reqs'[r].pc # "ratelimit"
                /\ \A s \in Slots \ {r} : reqs'[s] = reqs[s]]_vars

\* a request waits for the store while the admission of a second request
\* of the same client has run
C23_Witness ==
    \E r \in Slots, s \in Slots :
        /\ r # s
        /\ reqs[r].pc = "store" /\ reqs[r].checked
        /\ reqs[s].checked /\ reqs[s].client = reqs[r].client
        /\ reqs[s].status = 429
        /\ Len(calls[MinuteKey(reqs[r].client)]) = 2

\* C26: a request that passes the minute check and fails the hour check is
\* rejected with 429, retry_after 3600 and Retry-After: 3600; Retry-After
\* is 60 or 3600 on every rejection, and 3600 only when the minute check
\* allowed the request
C26_HourRejection ==
    \A r \in Slots :
        /\ reqs[r].checked /\ reqs[r].minute_allowed /\ ~reqs[r].hour_allowed =>
              /\ reqs[r].status = 429
              /\ reqs[r].retry_after = 3600
              /\ reqs[r].hdr_retry_after = "3600"
        /\ reqs[r].status = 429 =>
              \/ reqs[r].retry_after = 60 /\ reqs[r].hdr_retry_after = "60"
              \/ reqs[r].retry_after = 3600 /\ reqs[r].hdr_retry_after = "3600"
        /\ reqs[r].retry_after = 3600 \/ reqs[r].hdr_retry_after = "3600" =>
              reqs[r].checked /\ reqs[r].minute_allowed

\* the response of an hour rejection has left the pipeline
C26_Witness ==
    \E r \in Slots :
        /\ reqs[r].pc = "done"
        /\ reqs[r].checked /\ reqs[r].minute_allowed /\ ~reqs[r].hour_allowed
        /\ reqs[r].status = 429 /\ reqs[r].hdr_retry_after = "3600"

\* C31: a request that RateLimitMiddleware.dispatch rejects with 429 records
\* no timestamp under its client's minute key and none under its hour key,
\* whichever of the two checks denied it
C31_RejectionConsumesNoQuota ==
    [][\A r \in Slots :
          reqs[r].pc = "ratelimit" /\ reqs'[r].pc # "ratelimit" /\ reqs'[r].status = 429 =>
              /\ Len(Entry(requests', MinuteKey(reqs[r].client)))
                     <= Len(Entry(requests, MinuteKey(reqs[r].client)))
              /\ Len(Entry(requests', HourKey(reqs[r].client)))
                     <= Len(Entry(requests, HourKey(reqs[r].client)))]_vars

\* C35: a request for /metrics passes PrometheusMiddleware in both
\* directions without a change of the in-flight gauge, the duration
\* histogram or the request counter; a request for any other path raises the
\* gauge by one on entry and lowers it by one on exit, and the response it
\* brings back is observed in the histogram and counted under its status
C35_MetricsPathBypassed ==
    [][\A r \in Slots :
          LET enters == reqs[r].pc = "prometheus" /\ reqs'[r].pc # "prometheus"
              leaves == reqs[r].pc = "prometheus_ret" /\ reqs'[r].pc # "prometheus_ret"
          IN  enters \/ leaves =>
                IF reqs[r].path = "/metrics"
                THEN /\ REQUEST_IN_PROGRESS' = REQUEST_IN_PROGRESS
                     /\ REQUEST_DURATION' = REQUEST_DURATION
                     /\ REQUEST_COUNT' = REQUEST_COUNT
                     /\ ~reqs'[r].measured /\ ~reqs'[r].recorded
                ELSE /\ enters => /\ REQUEST_IN_PROGRESS' = REQUEST_IN_PROGRESS + 1
                                  /\ reqs'[r].measured
                     /\ leaves => /\ REQUEST_IN_PROGRESS' = REQUEST_IN_PROGRESS - 1
                                  /\ ~reqs[r].exc =>
                                        /\ REQUEST_DURATION' = REQUEST_DURATION + 1
                                        /\ REQUEST_COUNT'[reqs[r].status]
                                               = REQUEST_COUNT[reqs[r].status] + 1
                                        /\ reqs'[r].recorded]_vars

\* a request for /metrics was answered while nothing was recorded, and a
\* request for another path was answered and recorded
C35_Witness ==
    \E r, q \in Slots :
        /\ reqs[r].pc = "done" /\ reqs[r].path = "/metrics"
        /\ ~reqs[r].measured /\ ~reqs[r].recorded
        /\ reqs[q].pc = "done" /\ reqs[q].path # "/metrics"
        /\ reqs[q].measured /\ reqs[q].recorded
        /\ REQUEST_DURATION = 1
        /\ REQUEST_IN_PROGRESS = 0

\* ------------------------------------------------- properties: tokens
\* the last decode_token call was made on a token the service issued
DecodedIssued == lastDecode.src # <<>>

\* C14 as stated: for every claim set, an issued token decodes to the input
\* claims, each with its input value, plus "iat", "exp" and the kind of
\* the token; a token issued with a ttl of minus one fails as expired
C14_RoundTripEveryClaimSet ==
    DecodedIssued =>
        LET i == lastDecode.src[1]
            p == lastDecode.out.payload
        IN  /\ lastDecode.out.kind = "ok" =>
                /\ DOMAIN p = (DOMAIN i.data) \cup ReservedClaims
                /\ \A k \in DOMAIN i.data : p[k] = i.data[k]
                /\ p.type = i.kind
            /\ i.ttl < 0 => lastDecode.out.kind = "expired"

\* C14, amended: for every claim set that does not itself use the names
\* "exp", "iat" or "type", a token decoded before its expiry yields the
\* input claims unchanged plus "iat", "exp" and the kind of the token; a
\* claim of the input named "exp", "iat" or "type" is replaced by the
\* operation's own value; a token issued with a ttl of minus one fails as
\* expired at once
C14_RoundTrip ==
    DecodedIssued =>
        LET i == lastDecode.src[1]
            p == lastDecode.out.payload
        IN  /\ lastDecode.t < i.token.payload.exp => lastDecode.out.kind = "ok"
            /\ lastDecode.out.kind = "ok" =>
                /\ DOMAIN p = (DOMAIN i.data) \cup ReservedClaims
                /\ \A k \in (DOMAIN i.data) \ ReservedClaims : p[k] = i.data[k]
                /\ p.type = i.kind
                /\ p.exp = i.token.payload.exp /\ p.iat = i.token.payload.iat
            /\ i.ttl < 0 =>
                /\ lastDecode.out.kind = "expired"
                /\ lastDecode.out.response = ExpiredResponse

C14_Witness ==
    /\ DecodedIssued
    /\ lastDecode.out.kind = "ok"
    /\ lastDecode.src[1].kind = "refresh"
    /\ "role" \in DOMAIN lastDecode.src[1].data
    /\ lastDecode.out.payload.role = "admin"

\* C15 as stated: a validly signed token verifies at every clock value up to
\* and including its expiry and fails as expired at every later one; the
\* expired failure is a 401 whose detail differs from an invalid token's
C15_ValidThroughExpiry ==
    SignatureValid(lastDecode.token) /\ lastDecode.out.kind # "none" =>
        /\ lastDecode.t <= lastDecode.token.payload.exp => lastDecode.out.kind = "ok"
        /\ lastDecode.t > lastDecode.token.payload.exp =>
              /\ lastDecode.out.kind = "expired"
              /\ lastDecode.out.response.status = 401
              /\ lastDecode.out.response.detail # InvalidResponse.detail

\* C15, amended: a validly signed token verifies at every clock value before
\* its expiry and fails as expired at every clock value after it; at the
\* expiry itself either can happen; the expired failure is the 401 "Token
\* has expired", whose detail is not that of an invalid token
C15_ExpiryBoundary ==
    SignatureValid(lastDecode.token) /\ lastDecode.out.kind # "none" =>
        /\ lastDecode.t < lastDecode.token.payload.exp =>
              /\ lastDecode.out.kind = "ok"
              /\ lastDecode.out.payload = lastDecode.token.payload
        /\ lastDecode.t > lastDecode.token.payload.exp =>
              /\ lastDecode.out.kind = "expired"
              /\ lastDecode.out.response = ExpiredResponse
        /\ lastDecode.out.kind \in {"ok", "expired"}
        /\ ExpiredResponse.status = 401
        /\ ExpiredResponse.detail # InvalidResponse.detail

\* a token that was issued with a positive ttl and verified no longer
C15_Witness ==
    /\ DecodedIssued
    /\ lastDecode.src[1].ttl > 0
    /\ lastDecode.t > lastDecode.token.payload.exp
    /\ lastDecode.out.kind = "expired"

\* C16: a token whose signature differs from a valid one's, or whose
\* structure is malformed, fails with the token-invalid error: a 401, never
\* a success and never a 500
C16_InvalidTokenIs401 ==
    lastDecode.out.kind # "none" /\ ~SignatureValid(lastDecode.token) =>
        /\ lastDecode.out.kind = "invalid"
        /\ lastDecode.out.response = InvalidResponse

\* C18 as stated: the expiry of every issued token is strictly after its
\* issued-at, and expiry minus issued-at is the ttl of the call
C18_ExpiryAfterIssuedAt ==
    \A i \in issued :
        /\ i.token.payload.exp > i.token.payload.iat
        /\ i.token.payload.exp - i.token.payload.iat = i.ttl

\* C18, amended: the expiry of every issued token is the clock value read at
\* the start of the issue plus the ttl of the call (by default the
\* configured access or refresh lifetime); issued-at is a second, later
\* clock read, so expiry minus issued-at is the ttl or one less; the ttl may
\* be zero or negative, and the expiry is strictly after issued-at for every
\* ttl of two or more
C18_ExpiryFromIssueClock ==
    \A i \in issued :
        LET p == i.token.payload
        IN  /\ p.exp = i.at + i.ttl
            /\ p.iat \in {i.at, i.at + 1}
            /\ p.exp - p.iat \in {i.ttl, i.ttl - 1}
            /\ i.default => i.ttl = DefaultTtl(i.kind)
            /\ i.ttl >= 2 => p.exp > p.iat

\* a refresh token of default lifetime issued while the clock moved
C18_Witness ==
    \E i \in issued :
        /\ i.default /\ i.kind = "refresh"
        /\ i.ttl = RefreshTokenExpire
        /\ i.token.payload.exp - i.token.payload.iat = i.ttl - 1

\* ------------------------------------ properties: identity resolution
\* C17 as stated: decode_token never returns a claim set without a subject
C17_DecodeRequiresSubject ==
    auth.decoded = "ok" => "sub" \in DOMAIN auth.payload

\* C17, amended: decode_token returns the claim set of a validly signed,
\* unexpired token whether or not it has a subject; get_current_user then
\* fails a claim set without a subject with the 401 "Invalid authentication
\* credentials", without reading the store and without reaching a handler
C17_SubjectCheckedByResolver ==
    auth.decoded = "ok" /\ "sub" \notin DOMAIN auth.payload =>
        /\ auth.pc = "done"
        /\ auth.response = MissingSubjectResponse
        /\ ~auth.looked_up
        /\ ~auth.handled

C17_Witness ==
    /\ auth.pc = "done"
    /\ auth.cause = "no subject"
    /\ auth.decoded = "ok"
    /\ "sub" \notin DOMAIN auth.payload
    /\ auth.response.status = 401

\* C19: a verified token whose subject has no row in the store gets the
\* response an invalid token gets: same status, detail and challenge
C19_DeletedCallerLikeInvalidToken ==
    auth.pc = "done" /\ auth.cause = "user not found" =>
        /\ auth.response.status = 401
        /\ auth.response = InvalidOutcome.response

\* C20: on the admin-only route a request without credentials gets 401 with
\* WWW-Authenticate: Bearer, a caller of role "user" gets 403, a caller of
\* role exactly "admin" reaches the handler, and no other role does
C20_AdminGate ==
    auth.pc = "done" /\ auth.route = "admin_only" =>
        /\ ~auth.credentials =>
              /\ auth.response.status = 401
              /\ auth.response.www_authenticate = "Bearer"
        /\ auth.looked_up /\ auth.role = "user" => auth.response.status = 403
        /\ auth.looked_up /\ auth.role = "admin" => auth.handled
        /\ auth.looked_up /\ auth.role # "admin" => ~auth.handled

\* C32: on the admin-only route the decision for a resolved caller is a
\* function of the role of the caller's row in the store alone: a token that
\* claims "admin" for a caller stored as "user" gets 403, a token that claims
\* "user" for a caller stored as "admin" reaches the handler
C32_DecisionFromStoredRole ==
    auth.pc = "done" /\ auth.route = "admin_only" /\ auth.looked_up
            /\ users[auth.user_id] # NoRow =>
        /\ auth.handled <=> users[auth.user_id] = "admin"
        /\ ~auth.handled <=> auth.response = ForbiddenResponse
        /\ "role" \in DOMAIN auth.payload =>
              /\ auth.payload.role = "admin" /\ users[auth.user_id] = "user" =>
                    auth.response.status = 403
              /\ auth.payload.role = "user" /\ users[auth.user_id] = "admin" =>
                    auth.handled /\ auth.response = HandlerResponse

\* a verified token claiming "admin" was presented by a caller stored as
\* "user" and refused
C32_Witness ==
    /\ auth.pc = "done" /\ auth.route = "admin_only" /\ auth.looked_up
    /\ auth.decoded = "ok"
    /\ "role" \in DOMAIN auth.payload
    /\ auth.payload.role = "admin"
    /\ users[auth.user_id] = "user"
    /\ auth.response.status = 403

\* C33: a token the service issued, of either kind, presented before its
\* expiry with a subject that has a row in the store, is verified and
\* resolved to that subject, and the response is fixed by the route and the
\* stored role alone: a refresh token authenticates as an access token does
C33_TokenKindIrrelevant ==
    auth.pc = "done" /\ auth.credentials /\ auth.src # <<>> /\ auth.cause # "error" =>
        LET i == auth.src[1]
        IN  /\ auth.t < i.token.payload.exp
            /\ "sub" \in DOMAIN i.data
            /\ users[i.data.sub] # NoRow
            => /\ auth.decoded = "ok"
               /\ auth.looked_up
               /\ auth.user_id = i.data.sub
               /\ auth.response =
                     IF auth.route = "admin_only" /\ users[i.data.sub] # "admin"
                     THEN ForbiddenResponse
                     ELSE HandlerResponse

\* a refresh token authenticated a request that reached the handler
C33_Witness ==
    /\ auth.pc = "done" /\ auth.credentials /\ auth.src # <<>>
    /\ auth.src[1].kind = "refresh"
    /\ auth.decoded = "ok"
    /\ auth.payload.type = "refresh"
    /\ auth.handled
    /\ auth.response = HandlerResponse

\* ----------------------------------------- properties: database manager
\* C34: connect with a pool is a no-op that keeps the pool, disconnect
\* without one is a no-op, get_pool raises exactly when there is no pool,
\* at most one pool is open at any time, and once no connect or disconnect
\* call is in progress every pool ever created is the current one or closed
C34_AtMostOneLivePool ==
    /\ dbLast.op = "connect" /\ dbLast.before # None =>
          dbLast.after = dbLast.before /\ dbLast.opened = 0 /\ ~dbLast.raised
    /\ dbLast.op = "disconnect" /\ dbLast.before = None =>
          dbLast.after = None /\ dbLast.closed = 0 /\ ~dbLast.raised
    /\ dbLast.op = "get_pool" => (dbLast.raised <=> dbLast.before = None)
    /\ Cardinality({p \in 1..Len(pools) : pools[p] = "open"}) <= 1
    /\ (\A t \in DbTasks : dbcall[t].pc = "idle") =>
          \A p \in 1..Len(pools) : p = pool \/ pools[p] = "closed"

\* ------------------------------------------ properties: list of devices
\* the least number of pages of page_size rows that hold total rows
Ceil(total, page_size) ==
    CHOOSE n \in 0..total : n * page_size >= total /\ \A m \in 0..(n - 1) : m * page_size < total

\* C36: for an authenticated caller whose store answers, a list request
\* with page >= 1 and page_size in 1..100 answers 200 with
\* pages = ceil(total / page_size) (0 for total 0) and at most page_size
\* devices, those from offset (page - 1) * page_size of the rows ordered by
\* creation, none when the page lies beyond the last; page < 1 or page_size
\* outside 1..100 answers 422
C36_Pagination ==
    lst.pc = "done" /\ lst.cause \notin {"no credentials", "user not found", "store error"} =>
        IF lst.page < 1 \/ lst.page_size < 1 \/ lst.page_size > PageSizeLimit
        THEN lst.response.status = 422
        ELSE /\ lst.response.status = 200
             /\ lst.response.total = CountRows(lst.counted, lst.type)
             /\ lst.response.pages = Ceil(lst.response.total, lst.page_size)
             /\ lst.response.total = 0 => lst.response.pages = 0
             /\ Len(lst.response.devices) <= lst.page_size
             /\ \E o \in Orderings(lst.fetched, lst.type) :
                   /\ Len(lst.response.devices)
                         = IF Len(o) - (lst.page - 1) * lst.page_size < 0 THEN 0
                           ELSE IF Len(o) - (lst.page - 1) * lst.page_size > lst.page_size
                                THEN lst.page_size
                                ELSE Len(o) - (lst.page - 1) * lst.page_size
                   /\ \A i \in 1..Len(lst.response.devices) :
                         lst.response.devices[i] = o[(lst.page - 1) * lst.page_size + i]
             /\ (lst.page - 1) * lst.page_size >= CountRows(lst.fetched, lst.type) =>
                   lst.response.devices = <<>>

\* -------------------------------------------------- properties: login
\* C22: login answers an unknown username and a known username with a wrong
\* password with the same response, the 401 "Incorrect username or
\* password" with WWW-Authenticate: Bearer, and issues no token on either
C22_LoginFailuresIdentical ==
    login.pc = "done" /\ login.looked_up =>
        /\ ~login.found =>
              /\ login.response = WrongPasswordResponse
              /\ login.response.status = 401
              /\ login.response.detail = "Incorrect username or password"
        /\ login.found /\ ~login.verified =>
              /\ login.response = UnknownUserResponse
              /\ login.response.status = 401
              /\ login.response.detail = "Incorrect username or password"
        /\ ~(login.found /\ login.verified) =>
              /\ login.tokens = <<>>
              /\ issued = login.issued_before

\* a username without a row was refused after an earlier login of another
\* user had succeeded
C22_Witness ==
    /\ login.pc = "done" /\ login.looked_up
    /\ ~login.found
    /\ login.username = "mallory"
    /\ login.response.status = 401
    /\ issued # {}

\* ------------------------------------------------ properties: devices
\* C21: an unexpected internal failure while a request is handled (pool not
\* initialised, store unreachable) ends in the response 500 "Internal server
\* error", with no text of the internal error in it
C21_InternalFailureIs500 ==
    dev.pc = "done" /\ dev.failure # "" =>
        /\ dev.response.status = 500
        /\ dev.response = InternalErrorResponse

C28_GoneIs404 ==
    dev.pc = "done" /\ dev.handled /\ dev.failure = "" =>
        /\ dev.was_gone /\ dev.op \in {"get", "update", "delete"} =>
              dev.response.status = 404
        /\ dev.op \in {"update", "delete"} /\ dev.device_id \notin DOMAIN dev.before =>
              dev.response.status = 404 /\ devices = dev.before

\* C28, amended: after a successful delete of d, every later get or delete
\* of d by an admin, and every later update of d that supplies at least one
\* field, returns 404 until d is created again, and leaves the table
\* unchanged; the same holds for a delete or such an update of a device that
\* never existed; an update that supplies no field returns 400 without
\* looking for the device
C28_GoneIs404UnlessEmptyUpdate ==
    /\ gone \cap DOMAIN devices = {}
    /\ dev.pc = "done" /\ dev.handled /\ dev.failure = "" =>
        /\ (dev.was_gone \/ dev.device_id \notin DOMAIN dev.before)
              /\ dev.op \in {"get", "update", "delete"} =>
              IF dev.op = "update" /\ Supplied(dev.update_body) = {}
              THEN dev.response = NoFieldsResponse /\ ~dev.wrote
              ELSE /\ dev.response.status = 404
                   /\ dev.wrote
                   /\ devices = dev.before
        /\ dev.op = "delete" /\ dev.device_id \in DOMAIN dev.before =>
              /\ dev.response.status = 204
              /\ dev.device_id \in gone
              /\ devices = [d \in (DOMAIN dev.before) \ {dev.device_id} |-> dev.before[d]]

\* a get of a device that was created and then deleted
C28_Witness ==
    /\ dev.pc = "done" /\ dev.op = "get" /\ dev.was_gone
    /\ dev.wrote
    /\ dev.device_id \in gone
    /\ dev.response.status = 404

\* C29: an admin update of an existing device sets exactly the fields the
\* body supplies, and updated_at, and leaves the other fields of the device
\* and every other device as they were; an update that supplies no field
\* fails with 400 and makes no store write
C29_UpdateSetsSuppliedFields ==
    dev.pc = "done" /\ dev.op = "update" /\ dev.handled /\ dev.failure = "" =>
        /\ Supplied(dev.update_body) = {} =>
              /\ dev.response.status = 400
              /\ ~dev.wrote
              /\ devices = dev.at_start
        /\ Supplied(dev.update_body) # {} /\ dev.device_id \in DOMAIN dev.before =>
              LET d == dev.device_id
              IN  /\ dev.response.status = 200
                  /\ DOMAIN devices = DOMAIN dev.before
                  /\ \A e \in (DOMAIN devices) \ {d} : devices[e] = dev.before[e]
                  /\ \A f \in Supplied(dev.update_body) :
                        devices[d][f] = dev.update_body[f]
                  /\ \A f \in (DOMAIN devices[d]) \ (Supplied(dev.update_body) \cup {"updated_at"}) :
                        devices[d][f] = dev.before[d][f]
                  /\ devices[d].updated_at = dev.t
                  /\ dev.row = <<devices[d]>>

\* one of two devices was renamed at a later clock value than its creation
C29_Witness ==
    /\ dev.pc = "done" /\ dev.op = "update" /\ dev.response.status = 200
    /\ Supplied(dev.update_body) = {"name"}
    /\ Cardinality(DOMAIN devices) = 2
    /\ devices[dev.device_id].manufacturer = "acme"
    /\ devices[dev.device_id].updated_at > devices[dev.device_id].created_at

\* C30: a create with a device_id that exists fails with 400 or 409 and
\* leaves the table unchanged; a create with a fresh device_id succeeds with
\* 201, adds the device and changes nothing else, and a get of a device of
\* the table returns it
C30_CreateDuplicateRefused ==
    dev.pc = "done" /\ dev.handled /\ dev.failure = "" =>
        /\ dev.op = "create" /\ dev.device_id \in DOMAIN dev.before =>
              /\ dev.response.status \in {400, 409}
              /\ devices = dev.before
        /\ dev.op = "create" /\ dev.device_id \notin DOMAIN dev.before =>
              LET d == dev.device_id
              IN  /\ dev.response.status = 201
                  /\ DOMAIN devices = (DOMAIN dev.before) \cup {d}
                  /\ \A e \in DOMAIN dev.before : devices[e] = dev.before[e]
                  /\ \A f \in DOMAIN dev.create_body : devices[d][f] = dev.create_body[f]
                  /\ dev.row = <<devices[d]>>
        /\ dev.op = "get" /\ dev.device_id \in DOMAIN devices =>
              /\ dev.response.status = 200
              /\ dev.row = <<devices[dev.device_id]>>

\* a second create with the device_id of an existing device was refused
C30_Witness ==
    /\ dev.pc = "done" /\ dev.op = "create" /\ dev.cause = "duplicate"
    /\ dev.response.status = 400
    /\ dev.device_id \in DOMAIN devices
    /\ devices[dev.device_id].name # dev.create_body.name

====
